---------------------------- MODULE Spec2Model ----------------------------
(***************************************************************************)
(* Scoring engine of the equity research report generator                  *)
(* (src/src/report_generator.py, class ScoringEngine) and the technical    *)
(* momentum score it starts from (src/src/sentiment_analysis.py,           *)
(* SentimentAnalyzer.calculate_momentum_score).                            *)
(*                                                                         *)
(* Numbers.  Scores and weighted scores are integers in hundredths         *)
(* (5.0 is 500, 1.88 is 188); weights are in hundredths (0.25 is 25).      *)
(* Every metric is an integer in the unit in which the code's thresholds   *)
(* are whole numbers: fractions that the code compares with 0.30, 0.15 ... *)
(* are in percent, PEG, current ratio, Altman Z and the analyst mean       *)
(* rating are in tenths, P/E, debt/equity, interest coverage, peer premium *)
(* and price-target upside are in units.  Arithmetic is exact decimal      *)
(* arithmetic; Python's round() is round-half-to-even on that value (the   *)
(* binary representation error of a float is not modelled).                *)
(*                                                                         *)
(* Optional values.  A dictionary entry is Absent (key not in the dict),   *)
(* None (key present, value None) or Num(n).                               *)
(***************************************************************************)
EXTENDS Integers, Sequences, FiniteSets, TLC

Absent == [k |-> "absent", v |-> 0]
None == [k |-> "none", v |-> 0]
Num(n) == [k |-> "num", v |-> n]

\* dict.get(key): a missing key reads as None
Get(x) == IF x.k = "absent" THEN None ELSE x
\* dict.get(key, default): only a missing key reads as the default
GetDefault(x, d) == IF x.k = "absent" THEN Num(d) ELSE x
\* Python truth value of an optional number: None and 0 are falsy
Truthy(x) == x.k = "num" /\ x.v # 0
IsNone(x) == x.k # "num"
\* x or y
OrElse(x, y) == IF Truthy(x) THEN x ELSE y

Min2(a, b) == IF a < b THEN a ELSE b
Max2(a, b) == IF a > b THEN a ELSE b

\* round(x, ndigits) on a value held in units of 1/(unit * 10^ndigits):
\* nearest multiple of unit, ties to the even multiple; result in multiples
RoundHalfEven(n, unit) ==
    LET q == n \div unit
        r == n % unit
    IN  IF 2 * r < unit THEN q
        ELSE IF 2 * r > unit THEN q + 1
        ELSE IF q % 2 = 0 THEN q ELSE q + 1

\* round(score, 1) of a score in hundredths, in hundredths
Round1(s) == 10 * RoundHalfEven(s, 10)
\* round(score * weight, 2): score in hundredths, weight in hundredths
Round2(sw) == RoundHalfEven(sw, 100)

\* the clamp left out
ClampMissing(s) == s

\* max(1, min(10, score))
Clamp(s) == Max2(100, Min2(1000, s))

(***************************************************************************)
(* Configuration: src/src/config.py                                        *)
(***************************************************************************)
\* the table with the valuation weight raised to 0.35
SCORE_WEIGHTS_heavy ==
    [valuation |-> 35, growth |-> 20, profitability |-> 20,
     financial_health |-> 15, momentum_sentiment |-> 10, quality_moat |-> 10]

SCORE_WEIGHTS ==
    [valuation |-> 25, growth |-> 20, profitability |-> 20,
     financial_health |-> 15, momentum_sentiment |-> 10, quality_moat |-> 10]

RECOMMENDATION_THRESHOLDS ==
    [strong_buy |-> 800, buy |-> 650, hold |-> 500, sell |-> 350]

(***************************************************************************)
(* One threshold rule yields a delta and the factor strings it appends;    *)
(* err marks a TypeError raised while the rule is evaluated.               *)
(***************************************************************************)
NoAdj == [d |-> 0, f |-> <<>>, err |-> FALSE]
Adj(delta, factor) == [d |-> delta, f |-> <<factor>>, err |-> FALSE]
Raise == [d |-> 0, f |-> <<>>, err |-> TRUE]

RECURSIVE SumDeltas(_)
SumDeltas(rules) ==
    IF rules = <<>> THEN 0 ELSE Head(rules).d + SumDeltas(Tail(rules))

RECURSIVE AllFactors(_)
AllFactors(rules) ==
    IF rules = <<>> THEN <<>> ELSE Head(rules).f \o AllFactors(Tail(rules))

AnyRaise(rules) == \E i \in DOMAIN rules : rules[i].err

\* the dictionary a scorer returns; raised = the call ended in an exception
Raised == [raised |-> TRUE, score |-> 0, weight |-> 0, weighted |-> 0,
           factors |-> <<>>]
CategoryScore(score, weight, factors) ==
    [raised |-> FALSE, score |-> Round1(score), weight |-> weight,
     weighted |-> Round2(score * weight), factors |-> factors]

\* a scorer body: base score, rules applied in order, clamp, weight
Scorer(base, rules, weight) ==
    IF AnyRaise(rules) THEN Raised
    ELSE CategoryScore(Clamp(base + SumDeltas(rules)), weight, AllFactors(rules))

(***************************************************************************)
(* score_valuation                                                         *)
(***************************************************************************)
\* the buckets written as independent ifs: a P/E above 50 also meets "> 35"
pe_ladder_cumulative(pe) ==
    IF ~Truthy(pe) THEN NoAdj
    ELSE IF pe.v < 15 THEN Adj(150, "Low P/E ({pe:.1f}x) suggests value")
    ELSE IF pe.v < 25 THEN Adj(50, "Reasonable P/E ({pe:.1f}x)")
    ELSE IF pe.v > 50
         THEN [d |-> -200,
               f |-> << "High P/E ({pe:.1f}x) suggests premium valuation",
                        "Elevated P/E ({pe:.1f}x)" >>,
               err |-> FALSE]
    ELSE IF pe.v > 35 THEN Adj(-50, "Elevated P/E ({pe:.1f}x)")
    ELSE NoAdj

pe_ladder(pe) ==
    IF ~Truthy(pe) THEN NoAdj
    ELSE IF pe.v < 15 THEN Adj(150, "Low P/E ({pe:.1f}x) suggests value")
    ELSE IF pe.v < 25 THEN Adj(50, "Reasonable P/E ({pe:.1f}x)")
    ELSE IF pe.v > 50
         THEN Adj(-150, "High P/E ({pe:.1f}x) suggests premium valuation")
    ELSE IF pe.v > 35 THEN Adj(-50, "Elevated P/E ({pe:.1f}x)")
    ELSE NoAdj

\* pe_forward < pe * 0.8 and pe_forward > pe * 1.2, scaled by 10
pe_forward_ladder(pe, pe_forward) ==
    IF ~(Truthy(pe) /\ Truthy(pe_forward)) THEN NoAdj
    ELSE IF 10 * pe_forward.v < 8 * pe.v
         THEN Adj(50, "Forward P/E significantly lower - growth expected")
    ELSE IF 10 * pe_forward.v > 12 * pe.v
         THEN Adj(-50, "Forward P/E higher - potential earnings decline")
    ELSE NoAdj

peg_ladder(peg) ==
    IF ~Truthy(peg) THEN NoAdj
    ELSE IF peg.v < 10 THEN Adj(100, "Attractive PEG ratio ({peg:.2f})")
    ELSE IF peg.v > 20 THEN Adj(-50, "High PEG ratio ({peg:.2f})")
    ELSE NoAdj

\* the two discount buckets tested in the wrong order
peer_ladder_misordered(avg_premium) ==
    IF IsNone(avg_premium) THEN Raise
    ELSE IF avg_premium.v < -10
         THEN Adj(50, "Trading at slight discount to peers")
    ELSE IF avg_premium.v < -20
         THEN Adj(100, "Trading at {abs(avg_premium):.0f}% discount to peers")
    ELSE IF avg_premium.v > 30
         THEN Adj(-100, "Significant premium ({avg_premium:.0f}%) vs peers")
    ELSE IF avg_premium.v > 15 THEN Adj(-50, "Premium valuation vs peers")
    ELSE NoAdj

\* avg_premium is read with a default of 0 and compared without a None test
peer_ladder(avg_premium) ==
    IF IsNone(avg_premium) THEN Raise
    ELSE IF avg_premium.v < -20
         THEN Adj(100, "Trading at {abs(avg_premium):.0f}% discount to peers")
    ELSE IF avg_premium.v < -10
         THEN Adj(50, "Trading at slight discount to peers")
    ELSE IF avg_premium.v > 30
         THEN Adj(-100, "Significant premium ({avg_premium:.0f}%) vs peers")
    ELSE IF avg_premium.v > 15 THEN Adj(-50, "Premium valuation vs peers")
    ELSE NoAdj

\* a low FCF yield costing a whole point
fcf_yield_ladder_steep(fcf_yield) ==
    IF ~Truthy(fcf_yield) THEN NoAdj
    ELSE IF fcf_yield.v > 6 THEN Adj(50, "Strong FCF yield ({fcf_yield:.1%})")
    ELSE IF fcf_yield.v < 2 THEN Adj(-100, "Low FCF yield ({fcf_yield:.1%})")
    ELSE NoAdj

fcf_yield_ladder(fcf_yield) ==
    IF ~Truthy(fcf_yield) THEN NoAdj
    ELSE IF fcf_yield.v > 6 THEN Adj(50, "Strong FCF yield ({fcf_yield:.1%})")
    ELSE IF fcf_yield.v < 2 THEN Adj(-50, "Low FCF yield ({fcf_yield:.1%})")
    ELSE NoAdj

valuation_rules(a, p) ==
    LET valuation == a.valuation
        relative_val == p.relative_valuation
        pe == Get(valuation.pe_trailing)
        pe_forward == Get(valuation.pe_forward)
    IN  << pe_ladder(pe),
           pe_forward_ladder(pe, pe_forward),
           peg_ladder(Get(valuation.peg_ratio)),
           peer_ladder(GetDefault(relative_val.avg_premium_discount, 0)),
           fcf_yield_ladder(Get(valuation.fcf_yield)) >>

score_valuation(a, p) ==
    Scorer(500, valuation_rules(a, p), SCORE_WEIGHTS.valuation)

(***************************************************************************)
(* score_growth                                                            *)
(***************************************************************************)
\* the top bucket worth +1 like the second one
revenue_growth_ladder_flat(rev_growth) ==
    IF ~Truthy(rev_growth) THEN NoAdj
    ELSE IF rev_growth.v > 30
         THEN Adj(100, "Excellent revenue growth ({rev_growth:.1%})")
    ELSE IF rev_growth.v > 15
         THEN Adj(100, "Strong revenue growth ({rev_growth:.1%})")
    ELSE IF rev_growth.v > 5
         THEN Adj(50, "Moderate revenue growth ({rev_growth:.1%})")
    ELSE IF rev_growth.v < 0
         THEN Adj(-100, "Revenue declining ({rev_growth:.1%})")
    ELSE NoAdj

revenue_growth_ladder(rev_growth) ==
    IF ~Truthy(rev_growth) THEN NoAdj
    ELSE IF rev_growth.v > 30
         THEN Adj(200, "Excellent revenue growth ({rev_growth:.1%})")
    ELSE IF rev_growth.v > 15
         THEN Adj(100, "Strong revenue growth ({rev_growth:.1%})")
    ELSE IF rev_growth.v > 5
         THEN Adj(50, "Moderate revenue growth ({rev_growth:.1%})")
    ELSE IF rev_growth.v < 0
         THEN Adj(-100, "Revenue declining ({rev_growth:.1%})")
    ELSE NoAdj

revenue_cagr_ladder(rev_cagr) ==
    IF ~Truthy(rev_cagr) THEN NoAdj
    ELSE IF rev_cagr.v > 20
         THEN Adj(100, "Strong 3-year revenue CAGR ({rev_cagr:.1%})")
    ELSE IF rev_cagr.v < 5 THEN Adj(-50, "Slow revenue growth over 3 years")
    ELSE NoAdj

eps_growth_ladder(eps_growth) ==
    IF ~Truthy(eps_growth) THEN NoAdj
    ELSE IF eps_growth.v > 25
         THEN Adj(100, "Strong EPS growth ({eps_growth:.1%})")
    ELSE IF eps_growth.v < 0 THEN Adj(-100, "EPS declining ({eps_growth:.1%})")
    ELSE NoAdj

fcf_growth_ladder(fcf_growth) ==
    IF ~Truthy(fcf_growth) THEN NoAdj
    ELSE IF fcf_growth.v > 20
         THEN Adj(50, "Strong FCF growth ({fcf_growth:.1%})")
    ELSE IF fcf_growth.v < -20 THEN Adj(-50, "FCF declining significantly")
    ELSE NoAdj

growth_rules(a) ==
    LET growth == a.growth
        rev_growth == OrElse(Get(growth.revenue_growth_1y),
                             Get(growth.revenue_growth_yoy))
    IN  << revenue_growth_ladder(rev_growth),
           revenue_cagr_ladder(Get(growth.revenue_cagr_3y)),
           eps_growth_ladder(Get(growth.eps_growth_1y)),
           fcf_growth_ladder(Get(growth.fcf_growth_1y)) >>

score_growth(a) == Scorer(500, growth_rules(a), SCORE_WEIGHTS.growth)

(***************************************************************************)
(* score_profitability                                                     *)
(***************************************************************************)
gross_margin_ladder(gross_margin) ==
    IF ~Truthy(gross_margin) THEN NoAdj
    ELSE IF gross_margin.v > 60
         THEN Adj(150, "Excellent gross margin ({gross_margin:.1%})")
    ELSE IF gross_margin.v > 40
         THEN Adj(50, "Good gross margin ({gross_margin:.1%})")
    ELSE IF gross_margin.v < 20
         THEN Adj(-100, "Low gross margin ({gross_margin:.1%})")
    ELSE NoAdj

operating_margin_ladder(op_margin) ==
    IF ~Truthy(op_margin) THEN NoAdj
    ELSE IF op_margin.v > 25
         THEN Adj(100, "Strong operating margin ({op_margin:.1%})")
    ELSE IF op_margin.v > 15
         THEN Adj(50, "Healthy operating margin ({op_margin:.1%})")
    ELSE IF op_margin.v < 5
         THEN Adj(-100, "Thin operating margin ({op_margin:.1%})")
    ELSE NoAdj

roe_ladder(roe) ==
    IF ~Truthy(roe) THEN NoAdj
    ELSE IF roe.v > 25 THEN Adj(100, "Excellent ROE ({roe:.1%})")
    ELSE IF roe.v > 15 THEN Adj(50, "Good ROE ({roe:.1%})")
    ELSE IF roe.v < 8 THEN Adj(-50, "Low ROE ({roe:.1%})")
    ELSE NoAdj

roic_ladder(roic) ==
    IF ~Truthy(roic) THEN NoAdj
    ELSE IF roic.v > 20
         THEN Adj(100, "High ROIC ({roic:.1%}) - efficient capital allocation")
    ELSE IF roic.v < 8 THEN Adj(-50, "Low ROIC ({roic:.1%})")
    ELSE NoAdj

profitability_rules(a) ==
    LET prof == a.profitability
    IN  << gross_margin_ladder(Get(prof.gross_margin)),
           operating_margin_ladder(Get(prof.operating_margin)),
           roe_ladder(Get(prof.roe)),
           roic_ladder(Get(prof.roic)) >>

score_profitability(a) ==
    Scorer(500, profitability_rules(a), SCORE_WEIGHTS.profitability)

(***************************************************************************)
(* score_financial_health                                                  *)
(***************************************************************************)
current_ratio_ladder(current_ratio) ==
    IF ~Truthy(current_ratio) THEN NoAdj
    ELSE IF current_ratio.v > 20
         THEN Adj(100, "Strong current ratio ({current_ratio:.2f})")
    ELSE IF current_ratio.v > 15
         THEN Adj(50, "Healthy current ratio ({current_ratio:.2f})")
    ELSE IF current_ratio.v < 10
         THEN Adj(-100, "Low current ratio ({current_ratio:.2f}) - liquidity risk")
    ELSE NoAdj

\* tested with "is not None": 0 runs through the ladder
debt_to_equity_ladder(de_ratio) ==
    IF IsNone(de_ratio) THEN NoAdj
    ELSE IF de_ratio.v < 30 THEN Adj(100, "Low leverage (D/E: {de_ratio:.0f}%)")
    ELSE IF de_ratio.v < 100
         THEN Adj(50, "Moderate leverage (D/E: {de_ratio:.0f}%)")
    ELSE IF de_ratio.v > 200
         THEN Adj(-100, "High leverage (D/E: {de_ratio:.0f}%)")
    ELSE NoAdj

interest_coverage_ladder(int_coverage) ==
    IF ~Truthy(int_coverage) THEN NoAdj
    ELSE IF int_coverage.v > 10
         THEN Adj(100, "Excellent interest coverage ({int_coverage:.1f}x)")
    ELSE IF int_coverage.v > 5
         THEN Adj(50, "Good interest coverage ({int_coverage:.1f}x)")
    ELSE IF int_coverage.v < 2
         THEN Adj(-100, "Low interest coverage ({int_coverage:.1f}x) - debt risk")
    ELSE NoAdj

altman_z_ladder(z_score) ==
    IF ~Truthy(z_score) THEN NoAdj
    ELSE IF z_score.v > 30
         THEN Adj(50, "Strong Altman Z-Score ({z_score:.2f}) - low bankruptcy risk")
    ELSE IF z_score.v < 18
         THEN Adj(-100, "Low Altman Z-Score ({z_score:.2f}) - elevated risk")
    ELSE NoAdj

financial_health_rules(a) ==
    LET health == a.financial_health
    IN  << current_ratio_ladder(Get(health.current_ratio)),
           debt_to_equity_ladder(Get(health.debt_to_equity)),
           interest_coverage_ladder(Get(health.interest_coverage)),
           altman_z_ladder(Get(health.altman_z_score)) >>

score_financial_health(a) ==
    Scorer(500, financial_health_rules(a), SCORE_WEIGHTS.financial_health)

(***************************************************************************)
(* score_momentum_sentiment                                                *)
(***************************************************************************)
\* momentum.get("technical_signals", [])[:3]
FirstThree(signals) ==
    IF signals.k = "absent" THEN <<>>
    ELSE SubSeq(signals.v, 1, Min2(3, Len(signals.v)))

technical_signal_factors(signals) ==
    [d |-> 0, f |-> FirstThree(signals), err |-> FALSE]

mean_rating_ladder(mean_rating) ==
    IF ~Truthy(mean_rating) THEN NoAdj
    ELSE IF mean_rating.v <= 20 THEN Adj(100, "Strong analyst buy consensus")
    ELSE IF mean_rating.v <= 25 THEN Adj(50, "Positive analyst sentiment")
    ELSE IF mean_rating.v >= 40 THEN Adj(-100, "Bearish analyst sentiment")
    ELSE NoAdj

upside_ladder(upside) ==
    IF IsNone(upside) THEN NoAdj
    ELSE IF upside.v > 20
         THEN Adj(50, "Significant upside to price target ({upside:.0f}%)")
    ELSE IF upside.v < -10
         THEN Adj(-50, "Below analyst price target ({upside:.0f}%)")
    ELSE NoAdj

beat_rate_ladder(beat_rate) ==
    IF IsNone(beat_rate) THEN NoAdj
    ELSE IF beat_rate.v >= 75
         THEN Adj(50, "Strong earnings beat rate ({beat_rate:.0%})")
    ELSE IF beat_rate.v < 50
         THEN Adj(-50, "Weak earnings beat rate ({beat_rate:.0%})")
    ELSE NoAdj

momentum_sentiment_rules(s) ==
    LET momentum == s.momentum
        analyst == s.analyst_recommendations
        earnings == s.earnings_history
    IN  << technical_signal_factors(momentum.technical_signals),
           mean_rating_ladder(Get(analyst.mean_rating)),
           upside_ladder(Get(analyst.price_targets.upside_pct)),
           beat_rate_ladder(Get(earnings.beat_rate)) >>

\* the technical score never replaces the 5.0 start
score_momentum_sentiment_from_neutral(s) ==
    LET momentum_score == GetDefault(s.momentum.momentum_score, 500)
    IN  IF IsNone(momentum_score) THEN Raised
        ELSE Scorer(500, momentum_sentiment_rules(s),
                    SCORE_WEIGHTS.momentum_sentiment)

\* score = momentum_score replaces the 5.0 start; a momentum_score of None
\* reaches the arithmetic and the call ends in a TypeError
score_momentum_sentiment(s) ==
    LET momentum_score == GetDefault(s.momentum.momentum_score, 500)
    IN  IF IsNone(momentum_score) THEN Raised
        ELSE Scorer(momentum_score.v, momentum_sentiment_rules(s),
                    SCORE_WEIGHTS.momentum_sentiment)

(***************************************************************************)
(* score_quality_moat                                                      *)
(***************************************************************************)
\* the default dropped: a missing value reads as 0
GetOrZero(x, default) == IF Truthy(x) THEN x.v ELSE 0

\* d.get(key, default) or default
GetOr(x, default) == IF Truthy(x) THEN x.v ELSE default

margins_rule(gross_margin, op_margin) ==
    IF gross_margin > 50 /\ op_margin > 20
    THEN Adj(150, "High margins suggest pricing power/moat")
    ELSE IF gross_margin > 40 /\ op_margin > 15
    THEN Adj(50, "Healthy margins indicate competitive position")
    ELSE NoAdj

returns_rule(roe, roic) ==
    IF roe > 20 /\ roic > 15
    THEN Adj(100, "High ROE & ROIC suggest durable competitive advantage")
    ELSE NoAdj

cagr_rule(rev_cagr) ==
    IF Truthy(rev_cagr) /\ rev_cagr.v > 10
    THEN Adj(50, "Consistent revenue growth demonstrates market position")
    ELSE NoAdj

low_debt_rule(de_ratio) ==
    IF de_ratio < 50 THEN Adj(50, "Conservative capital structure") ELSE NoAdj

cash_generation_rule(fcf) ==
    IF fcf > 4 THEN Adj(50, "Strong free cash flow generation") ELSE NoAdj

quality_moat_rules(a) ==
    LET prof == a.profitability
        health == a.financial_health
        growth == a.growth
    IN  << margins_rule(GetOr(prof.gross_margin, 0),
                        GetOr(prof.operating_margin, 0)),
           returns_rule(GetOr(prof.roe, 0), GetOr(prof.roic, 0)),
           cagr_rule(Get(growth.revenue_cagr_3y)),
           low_debt_rule(GetOr(health.debt_to_equity, 100)),
           cash_generation_rule(GetOr(a.valuation.fcf_yield, 0)) >>

score_quality_moat(a) ==
    Scorer(500, quality_moat_rules(a), SCORE_WEIGHTS.quality_moat)

(***************************************************************************)
(* calculate_total_score                                                   *)
(***************************************************************************)
Recommendation(total_score) ==
    IF total_score >= RECOMMENDATION_THRESHOLDS.strong_buy THEN "Strong Buy"
    ELSE IF total_score >= RECOMMENDATION_THRESHOLDS.buy THEN "Buy"
    ELSE IF total_score >= RECOMMENDATION_THRESHOLDS.hold THEN "Hold"
    ELSE IF total_score >= RECOMMENDATION_THRESHOLDS.sell THEN "Sell"
    ELSE "Strong Sell"

NoScore == [raised |-> FALSE, score |-> 0, weight |-> 0, weighted |-> 0,
            factors |-> <<>>]

CategoryNames == {"Valuation", "Growth", "Profitability", "Financial Health",
                  "Momentum/Sentiment", "Quality/Moat"}

NoFactors == [valuation |-> <<>>, growth |-> <<>>, profitability |-> <<>>,
              health |-> <<>>, momentum |-> <<>>, quality |-> <<>>]

NoReport == [raised |-> FALSE, total_score |-> 0, recommendation |-> "",
             categories |-> [c \in CategoryNames |-> NoScore],
             all_factors |-> NoFactors]

\* the last category left out of the sum
TotalWithoutQuality(valuation, growth, profitability, health, momentum, quality) ==
    valuation.weighted + growth.weighted + profitability.weighted
        + health.weighted + momentum.weighted

\* the sum of the six weighted values, before it is rounded for the report
TotalWeighted(valuation, growth, profitability, health, momentum, quality) ==
    valuation.weighted + growth.weighted + profitability.weighted
        + health.weighted + momentum.weighted + quality.weighted

\* the recommendation is chosen from the unrounded sum; total_score is
\* round(total_score, 1), held in hundredths
ScoreReport(valuation, growth, profitability, health, momentum, quality) ==
    LET total_score == TotalWeighted(valuation, growth, profitability,
                                     health, momentum, quality)
    IN  [raised |-> FALSE,
         total_score |-> Round1(total_score),
         recommendation |-> Recommendation(total_score),
         categories |-> [c \in CategoryNames |->
            CASE c = "Valuation" -> valuation
              [] c = "Growth" -> growth
              [] c = "Profitability" -> profitability
              [] c = "Financial Health" -> health
              [] c = "Momentum/Sentiment" -> momentum
              [] c = "Quality/Moat" -> quality],
         all_factors |->
            [valuation |-> valuation.factors, growth |-> growth.factors,
             profitability |-> profitability.factors,
             health |-> health.factors, momentum |-> momentum.factors,
             quality |-> quality.factors]]

calculate_total_score(a, p, s) ==
    LET valuation == score_valuation(a, p)
        growth == score_growth(a)
        profitability == score_profitability(a)
        health == score_financial_health(a)
        momentum == score_momentum_sentiment(s)
        quality == score_quality_moat(a)
    IN  IF valuation.raised \/ momentum.raised
        THEN [NoReport EXCEPT !.raised = TRUE]
        ELSE ScoreReport(valuation, growth, profitability, health,
                         momentum, quality)

(***************************************************************************)
(* SentimentAnalyzer.calculate_momentum_score                              *)
(***************************************************************************)
return_1m_ladder(r1m) ==
    IF r1m > 10 THEN Adj(100, "Strong 1M momentum (+10%+)")
    ELSE IF r1m > 5 THEN Adj(50, "Positive 1M momentum (+5%+)")
    ELSE IF r1m < -10 THEN Adj(-100, "Weak 1M momentum (-10%+)")
    ELSE IF r1m < -5 THEN Adj(-50, "Negative 1M momentum (-5%+)")
    ELSE NoAdj

price_vs_ma50(current_price, ma50) ==
    IF ~(Truthy(current_price) /\ Truthy(ma50)) THEN NoAdj
    ELSE IF current_price.v > ma50.v THEN Adj(50, "Price above 50-day MA")
    ELSE Adj(-50, "Price below 50-day MA")

price_vs_ma200(current_price, ma200) ==
    IF ~(Truthy(current_price) /\ Truthy(ma200)) THEN NoAdj
    ELSE IF current_price.v > ma200.v THEN Adj(50, "Price above 200-day MA")
    ELSE Adj(-50, "Price below 200-day MA")

ma_cross(ma50, ma200) ==
    IF ~(Truthy(ma50) /\ Truthy(ma200)) THEN NoAdj
    ELSE IF ma50.v > ma200.v THEN Adj(50, "Golden cross (50MA > 200MA)")
    ELSE Adj(-50, "Death cross (50MA < 200MA)")

\* pct_from_high is read as "get(key, 0) or 0": a missing value is 0
high_proximity(pct_from_high) ==
    IF pct_from_high > -5 THEN Adj(50, "Near 52-week high")
    ELSE IF pct_from_high < -30
         THEN Adj(-50, "Significantly below 52-week high (>30%)")
    ELSE NoAdj

momentum_rules(d) ==
    LET overview == d.overview
        current_price == Get(overview.current_price)
        ma50 == Get(overview.fifty_day_avg)
        ma200 == Get(overview.two_hundred_day_avg)
    IN  << return_1m_ladder(GetOr(d.return_metrics.return_1m, 0)),
           price_vs_ma50(current_price, ma50),
           price_vs_ma200(current_price, ma200),
           ma_cross(ma50, ma200),
           high_proximity(GetOr(overview.pct_from_52w_high, 0)) >>

overall_momentum(score) ==
    IF score >= 700 THEN "Strong Bullish"
    ELSE IF score >= 600 THEN "Bullish"
    ELSE IF score >= 400 THEN "Neutral"
    ELSE IF score >= 300 THEN "Bearish"
    ELSE "Strong Bearish"

\* appended to the signals list after it was stored in the result: the
\* result holds the same list object
rsi_signals(rsi) ==
    IF IsNone(rsi) THEN <<>>
    ELSE IF rsi.v > 70 THEN << "RSI overbought ({latest_rsi:.0f})" >>
    ELSE IF rsi.v < 30 THEN << "RSI oversold ({latest_rsi:.0f})" >>
    ELSE <<>>

calculate_momentum_score(d) ==
    LET rules == momentum_rules(d)
        score == Clamp(500 + SumDeltas(rules))
    IN  [momentum_score |-> Round1(score),
         technical_signals |-> AllFactors(rules) \o rsi_signals(Get(d.rsi)),
         overall_momentum |-> overall_momentum(score)]

(***************************************************************************)
(* Peer comparison: src/src/peer_comparison.py, class PeerComparison.      *)
(* A valuation multiple is an integer; a premium, a peer average and the   *)
(* average premium are rational numbers n/d held in lowest terms, d > 0.   *)
(***************************************************************************)
Abs(x) == IF x < 0 THEN -x ELSE x

RECURSIVE Gcd(_, _)
Gcd(a, b) == IF b = 0 THEN a ELSE Gcd(b, a % b)

Frac(n, d) == LET g == Gcd(Abs(n), d) IN [n |-> n \div g, d |-> d \div g]
FracAdd(a, b) == Frac(a.n * b.d + b.n * a.d, a.d * b.d)

RECURSIVE SumSeq(_)
SumSeq(s) == IF s = <<>> THEN 0 ELSE Head(s) + SumSeq(Tail(s))

RECURSIVE FracSum(_)
FracSum(s) == IF s = <<>> THEN Frac(0, 1) ELSE FracAdd(Head(s), FracSum(Tail(s)))

\* np.mean of a non-empty list of rationals
FracMean(s) == LET t == FracSum(s) IN Frac(t.n, t.d * Len(s))

\* the valuation rows of the comparison matrix, in the order they are read
valuation_metrics == << "P/E (TTM)", "P/E (Forward)", "EV/EBITDA", "P/S", "P/B" >>

\* create_comparison_matrix: the key_statistics entry behind a row
MetricValue(stats, metric) ==
    CASE metric = "P/E (TTM)" -> Get(stats.pe_trailing)
      [] metric = "P/E (Forward)" -> Get(stats.pe_forward)
      [] metric = "EV/EBITDA" -> Get(stats.ev_to_ebitda)
      [] metric = "P/S" -> Get(stats.price_to_sales)
      [] metric = "P/B" -> Get(stats.price_to_book)

\* the values of the peers that have a column in the matrix (their data was
\* collected) and a value that is neither NaN nor None, in self.peers order
RECURSIVE peer_values(_, _, _)
peer_values(metric, peer_list, pdata) ==
    IF peer_list = <<>> THEN <<>>
    ELSE LET peer == Head(peer_list)
             rest == peer_values(metric, Tail(peer_list), pdata)
         IN  IF peer \in DOMAIN pdata
                    /\ ~IsNone(MetricValue(pdata[peer].stats, metric))
             THEN << MetricValue(pdata[peer].stats, metric).v >> \o rest
             ELSE rest

\* the metrics that reach the premium computation: the target has a value
\* (if pd.isna(target_value) ...: continue) and some peer has one
\* (if not peer_values: continue)
evaluated_metrics(stats, peer_list, pdata) ==
    SelectSeq(valuation_metrics,
              LAMBDA m : /\ ~IsNone(MetricValue(stats, m))
                         /\ peer_values(m, peer_list, pdata) # <<>>)

\* ((target_value / peer_avg) - 1) * 100 when peer_avg > 0, else 0;
\* peer_avg = sum / count is positive exactly when the sum is
premium_pct(target_value, values) ==
    IF values # <<>> /\ SumSeq(values) > 0
    THEN Frac(100 * (target_value * Len(values) - SumSeq(values)), SumSeq(values))
    ELSE Frac(0, 1)

premium_discount(stats, peer_list, pdata) ==
    LET evaluated == evaluated_metrics(stats, peer_list, pdata)
    IN  [m \in {evaluated[i] : i \in DOMAIN evaluated} |->
            premium_pct(MetricValue(stats, m).v, peer_values(m, peer_list, pdata))]

\* np.mean(list(premium_discount.values())) if premium_discount else 0
average_premium(stats, peer_list, pdata) ==
    LET evaluated == evaluated_metrics(stats, peer_list, pdata)
        entries == premium_discount(stats, peer_list, pdata)
    IN  IF evaluated = <<>> THEN Frac(0, 1)
        ELSE FracMean([i \in DOMAIN evaluated |-> entries[evaluated[i]]])

\* the bands with the two premium labels exchanged
assessment_swapped(p) ==
    IF p.n > 30 * p.d THEN "Moderate Premium"
    ELSE IF p.n > 10 * p.d THEN "Significant Premium"
    ELSE IF p.n > -10 * p.d THEN "In-Line"
    ELSE IF p.n > -30 * p.d THEN "Moderate Discount"
    ELSE "Significant Discount"

assessment(p) ==
    IF p.n > 30 * p.d THEN "Significant Premium"
    ELSE IF p.n > 10 * p.d THEN "Moderate Premium"
    ELSE IF p.n > -10 * p.d THEN "In-Line"
    ELSE IF p.n > -30 * p.d THEN "Moderate Discount"
    ELSE "Significant Discount"

calculate_relative_valuation(stats, peer_list, pdata) ==
    [premium_discount |-> premium_discount(stats, peer_list, pdata),
     avg_premium_discount |-> average_premium(stats, peer_list, pdata),
     assessment |-> assessment(average_premium(stats, peer_list, pdata))]

\* what the three fetches of one peer return; ok = FALSE: the fetch raises
fetch_succeeds(source) ==
    source.overview_ok /\ source.stats_ok /\ source.return_metrics_ok

peer_entry(source) ==
    [overview |-> "fetched", stats |-> source.stats, return_metrics |-> "fetched"]

\* the loop left at the first peer whose fetch raises
RECURSIVE collect_peer_data_aborting(_, _, _)
collect_peer_data_aborting(peer_list, provider, pdata) ==
    IF peer_list = <<>> THEN pdata
    ELSE LET peer == Head(peer_list)
         IN  IF fetch_succeeds(provider[peer])
             THEN collect_peer_data_aborting(Tail(peer_list), provider,
                     [p \in DOMAIN pdata \cup {peer} |->
                        IF p = peer THEN peer_entry(provider[peer]) ELSE pdata[p]])
             ELSE pdata

\* for peer in self.peers: the entry is assigned once the three fetches
\* returned; an exception skips the peer and the loop continues
RECURSIVE collect_peer_data(_, _, _)
collect_peer_data(peer_list, provider, pdata) ==
    IF peer_list = <<>> THEN pdata
    ELSE LET peer == Head(peer_list)
         IN  IF fetch_succeeds(provider[peer])
             THEN collect_peer_data(Tail(peer_list), provider,
                     [p \in DOMAIN pdata \cup {peer} |->
                        IF p = peer THEN peer_entry(provider[peer]) ELSE pdata[p]])
             ELSE collect_peer_data(Tail(peer_list), provider, pdata)

(***************************************************************************)
(* Configuration as the engine meets it.  config.py and config_loader.py   *)
(* each hold the two tables; report_generator.py binds those of config.py  *)
(* when it is imported and reads them in every scoring call.  No code      *)
(* inspects the tables before they are used.                               *)
(***************************************************************************)
\* src/src/config_loader.py
LOADER_SCORE_WEIGHTS ==
    [valuation |-> 25, growth |-> 20, profitability |-> 20,
     financial_health |-> 15, momentum_sentiment |-> 10, quality_moat |-> 10]

LOADER_RECOMMENDATION_THRESHOLDS ==
    [strong_buy |-> 800, buy |-> 650, hold |-> 500, sell |-> 350]

ShippedConfig ==
    [weights |-> SCORE_WEIGHTS, thresholds |-> RECOMMENDATION_THRESHOLDS]

\* a category score under the weight table in force: round(score * weight, 2)
weighted_by(category, weight) ==
    IF category.raised THEN category
    ELSE [category EXCEPT !.weight = weight,
                          !.weighted = Round2(category.score * weight)]

\* the threshold ladder of calculate_total_score under the table in force
recommendation_by(thresholds, total_score) ==
    IF total_score >= thresholds.strong_buy THEN "Strong Buy"
    ELSE IF total_score >= thresholds.buy THEN "Buy"
    ELSE IF total_score >= thresholds.hold THEN "Hold"
    ELSE IF total_score >= thresholds.sell THEN "Sell"
    ELSE "Strong Sell"

\* calculate_total_score reading the tables of cfg
configured_total_score(cfg, a, p, s) ==
    LET valuation == weighted_by(score_valuation(a, p), cfg.weights.valuation)
        growth == weighted_by(score_growth(a), cfg.weights.growth)
        profitability ==
            weighted_by(score_profitability(a), cfg.weights.profitability)
        health ==
            weighted_by(score_financial_health(a), cfg.weights.financial_health)
        momentum ==
            weighted_by(score_momentum_sentiment(s), cfg.weights.momentum_sentiment)
        quality == weighted_by(score_quality_moat(a), cfg.weights.quality_moat)
    IN  IF valuation.raised \/ momentum.raised
        THEN [NoReport EXCEPT !.raised = TRUE]
        ELSE [ScoreReport(valuation, growth, profitability, health,
                          momentum, quality)
                EXCEPT !.recommendation =
                    recommendation_by(cfg.thresholds,
                        TotalWeighted(valuation, growth, profitability,
                                      health, momentum, quality))]

(***************************************************************************)
(* Inputs.  The engine is handed three dictionaries (analysis,             *)
(* peer_summary, sentiment) and the momentum calculation reads the         *)
(* collected data.  Each metric ranges over one value per bucket of its    *)
(* ladder and the thresholds themselves, besides Absent, None and 0.       *)
(***************************************************************************)
Nums(S) == {Num(n) : n \in S}

PEVals == {Absent, None} \cup Nums({0, 12, 15, 25, 35, 50, 60})
PEForwardVals == {Absent} \cup Nums({0, 10, 12, 18, 100})
PEGVals == {Absent, None} \cup Nums({0, 5, 10, 20, 30})
FCFYieldVals == {Absent, None} \cup Nums({0, 1, 2, 6, 8})
PremiumVals == {Absent, None} \cup Nums({-25, -20, 0, 30, 40})

RevGrowth1yVals == {Absent, None} \cup Nums({0, -5, 5, 15, 30, 35})
RevGrowthYoyVals == {Absent} \cup Nums({0, -5, 20})
RevCagrVals == {Absent, None} \cup Nums({0, 3, 5, 20, 25})
EpsGrowthVals == {Absent, None} \cup Nums({0, -5, 25, 30})
FcfGrowthVals == {Absent, None} \cup Nums({0, -25, -20, 20, 25})

GrossMarginVals == {Absent, None} \cup Nums({0, 10, 20, 40, 50, 60, 65})
OpMarginVals == {Absent, None} \cup Nums({0, 3, 5, 15, 20, 25, 30})
RoeVals == {Absent, None} \cup Nums({0, 5, 8, 15, 25, 30})
RoicVals == {Absent, None} \cup Nums({0, 5, 8, 20, 25})

CurrentRatioVals == {Absent, None} \cup Nums({0, 5, 10, 15, 20, 25})
DebtToEquityVals == {Absent, None} \cup Nums({0, 20, 30, 100, 200, 250})
InterestCoverageVals == {Absent, None} \cup Nums({0, 1, 2, 5, 10, 12})
AltmanZVals == {Absent, None} \cup Nums({0, 10, 18, 30, 35})

\* the sentiment summary: momentum_score as calculate_momentum_score can
\* produce it (2.0 to 8.0) and beyond, for an engine built on other input
MomentumScoreVals == {Absent, None} \cup Nums({-100, 200, 500, 1000, 1200})
MeanRatingVals == {Absent, None} \cup Nums({0, 20, 25, 30, 40})
UpsideVals == {Absent, None} \cup Nums({-15, -10, 20, 25})
BeatRateVals == {Absent, None} \cup Nums({0, 50, 75})

\* the signals calculate_momentum_score can emit together, in its order
SignalPool ==
    << "Strong 1M momentum (+10%+)", "Price above 50-day MA",
       "Price above 200-day MA", "Golden cross (50MA > 200MA)",
       "Near 52-week high", "RSI overbought ({latest_rsi:.0f})" >>

\* longest technical_signals list handed to the engine
MaxSignals == 4

SignalLists ==
    {[k |-> "absent", v |-> <<>>]}
        \cup {[k |-> "list", v |-> SubSeq(SignalPool, 1, n)] :
                n \in 0..Min2(MaxSignals, Len(SignalPool))}

Return1mVals == {Absent, None} \cup Nums({-15, -10, -5, 5, 10, 15})
PriceVals == {Absent} \cup Nums({0, 100})
Ma50Vals == {Absent} \cup Nums({0, 90, 100, 110})
Ma200Vals == {Absent} \cup Nums({90, 100})
PctFromHighVals == {Absent, None} \cup Nums({-3, -5, -30, -40})
RsiVals == {Absent} \cup Nums({20, 50, 80})

NoValuation == [pe_trailing |-> Absent, pe_forward |-> Absent,
                peg_ratio |-> Absent, fcf_yield |-> Absent]
NoGrowth == [revenue_growth_1y |-> Absent, revenue_growth_yoy |-> Absent,
             revenue_cagr_3y |-> Absent, eps_growth_1y |-> Absent,
             fcf_growth_1y |-> Absent]
NoProfitability == [gross_margin |-> Absent, operating_margin |-> Absent,
                    roe |-> Absent, roic |-> Absent]
NoHealth == [current_ratio |-> Absent, debt_to_equity |-> Absent,
             interest_coverage |-> Absent, altman_z_score |-> Absent]
NoPeerSummary == [relative_valuation |-> [avg_premium_discount |-> Absent]]
NoSentiment ==
    [momentum |-> [momentum_score |-> Absent,
                   technical_signals |-> [k |-> "absent", v |-> <<>>]],
     analyst_recommendations |->
        [mean_rating |-> Absent, price_targets |-> [upside_pct |-> Absent]],
     earnings_history |-> [beat_rate |-> Absent]]
NoAnalysis == [valuation |-> NoValuation, growth |-> NoGrowth,
               profitability |-> NoProfitability,
               financial_health |-> NoHealth]
NoData == [return_metrics |-> [return_1m |-> Absent],
           overview |-> [current_price |-> Absent, fifty_day_avg |-> Absent,
                         two_hundred_day_avg |-> Absent,
                         pct_from_52w_high |-> Absent],
           rsi |-> Absent]

ValuationBags == [pe_trailing : PEVals, pe_forward : PEForwardVals,
                  peg_ratio : PEGVals, fcf_yield : FCFYieldVals]
GrowthBags == [revenue_growth_1y : RevGrowth1yVals,
               revenue_growth_yoy : RevGrowthYoyVals,
               revenue_cagr_3y : RevCagrVals, eps_growth_1y : EpsGrowthVals,
               fcf_growth_1y : FcfGrowthVals]
ProfitabilityBags == [gross_margin : GrossMarginVals,
                      operating_margin : OpMarginVals,
                      roe : RoeVals, roic : RoicVals]
HealthBags == [current_ratio : CurrentRatioVals,
               debt_to_equity : DebtToEquityVals,
               interest_coverage : InterestCoverageVals,
               altman_z_score : AltmanZVals]
PeerSummaries == [relative_valuation : [avg_premium_discount : PremiumVals]]
Sentiments ==
    [momentum : [momentum_score : MomentumScoreVals,
                 technical_signals : SignalLists],
     analyst_recommendations :
        [mean_rating : MeanRatingVals,
         price_targets : [upside_pct : UpsideVals]],
     earnings_history : [beat_rate : BeatRateVals]]
Datas == [return_metrics : [return_1m : Return1mVals],
          overview : [current_price : PriceVals, fifty_day_avg : Ma50Vals,
                      two_hundred_day_avg : Ma200Vals,
                      pct_from_52w_high : PctFromHighVals],
          rsi : RsiVals]

(***************************************************************************)
(* Whole-company profiles: every category at once absent, at the bottom,   *)
(* in the middle or at the top of its ladders.                             *)
(***************************************************************************)
ValuationProfiles ==
    { NoValuation,
      [pe_trailing |-> Num(60), pe_forward |-> Num(100),
       peg_ratio |-> Num(30), fcf_yield |-> Num(1)],
      [pe_trailing |-> Num(20), pe_forward |-> Num(20),
       peg_ratio |-> Num(15), fcf_yield |-> Num(8)],
      [pe_trailing |-> Num(12), pe_forward |-> Num(9),
       peg_ratio |-> Num(5), fcf_yield |-> Num(8)] }
PeerProfiles ==
    { NoPeerSummary,
      [relative_valuation |-> [avg_premium_discount |-> Num(40)]],
      [relative_valuation |-> [avg_premium_discount |-> Num(-25)]] }
GrowthProfiles ==
    { NoGrowth,
      [revenue_growth_1y |-> Num(-5), revenue_growth_yoy |-> Absent,
       revenue_cagr_3y |-> Num(3), eps_growth_1y |-> Num(-5),
       fcf_growth_1y |-> Num(-25)],
      [revenue_growth_1y |-> Num(20), revenue_growth_yoy |-> Absent,
       revenue_cagr_3y |-> Num(15), eps_growth_1y |-> Num(10),
       fcf_growth_1y |-> Num(25)],
      [revenue_growth_1y |-> Num(35), revenue_growth_yoy |-> Absent,
       revenue_cagr_3y |-> Num(25), eps_growth_1y |-> Num(30),
       fcf_growth_1y |-> Num(25)] }
ProfitabilityProfiles ==
    { NoProfitability,
      [gross_margin |-> Num(10), operating_margin |-> Num(3),
       roe |-> Num(5), roic |-> Num(5)],
      [gross_margin |-> Num(45), operating_margin |-> Num(20),
       roe |-> Num(20), roic |-> Num(10)],
      [gross_margin |-> Num(65), operating_margin |-> Num(30),
       roe |-> Num(30), roic |-> Num(25)] }
HealthProfiles ==
    { NoHealth,
      [current_ratio |-> Num(5), debt_to_equity |-> Num(250),
       interest_coverage |-> Num(1), altman_z_score |-> Num(10)],
      [current_ratio |-> Num(18), debt_to_equity |-> Num(80),
       interest_coverage |-> Num(4), altman_z_score |-> Num(25)],
      [current_ratio |-> Num(25), debt_to_equity |-> Num(20),
       interest_coverage |-> Num(12), altman_z_score |-> Num(35)] }
SentimentProfile(momentum_score, mean_rating, upside, beat_rate) ==
    [momentum |-> [momentum_score |-> momentum_score,
                   technical_signals |-> [k |-> "absent", v |-> <<>>]],
     analyst_recommendations |->
        [mean_rating |-> mean_rating, price_targets |-> [upside_pct |-> upside]],
     earnings_history |-> [beat_rate |-> beat_rate]]
SentimentProfiles ==
    { NoSentiment,
      SentimentProfile(Num(200), Num(40), Num(-15), Num(0)),
      SentimentProfile(Num(650), Num(25), Absent, Num(50)),
      SentimentProfile(Num(800), Num(20), Num(25), Num(75)) }

\* section 8 of the specification: the end-to-end scenario
ScenarioInput ==
    [analysis |->
        [valuation |-> [NoValuation EXCEPT !.pe_trailing = Num(12)],
         growth |-> [NoGrowth EXCEPT !.revenue_growth_yoy = Num(35)],
         profitability |-> [NoProfitability EXCEPT !.gross_margin = Num(65)],
         financial_health |-> [NoHealth EXCEPT !.debt_to_equity = Num(20)]],
     peer_summary |-> [relative_valuation |-> [avg_premium_discount |-> Num(-25)]],
     sentiment |-> [NoSentiment EXCEPT !.momentum.momentum_score = Num(700)],
     data |-> NoData]

\* one scorer's metrics over all their values, the others absent
FocusInputs ==
    [analysis : [valuation : ValuationBags, growth : {NoGrowth},
                 profitability : {NoProfitability},
                 financial_health : {NoHealth}],
     peer_summary : PeerSummaries, sentiment : {NoSentiment}, data : {NoData}]
    \cup
    [analysis : [valuation : {NoValuation}, growth : GrowthBags,
                 profitability : {NoProfitability},
                 financial_health : {NoHealth}],
     peer_summary : {NoPeerSummary}, sentiment : {NoSentiment}, data : {NoData}]
    \cup
    [analysis : [valuation : {NoValuation}, growth : {NoGrowth},
                 profitability : ProfitabilityBags,
                 financial_health : {NoHealth}],
     peer_summary : {NoPeerSummary}, sentiment : {NoSentiment}, data : {NoData}]
    \cup
    [analysis : [valuation : {NoValuation}, growth : {NoGrowth},
                 profitability : {NoProfitability},
                 financial_health : HealthBags],
     peer_summary : {NoPeerSummary}, sentiment : {NoSentiment}, data : {NoData}]
    \cup
    [analysis : {NoAnalysis}, peer_summary : {NoPeerSummary},
     sentiment : Sentiments, data : {NoData}]
    \cup
    [analysis : {NoAnalysis}, peer_summary : {NoPeerSummary},
     sentiment : {NoSentiment}, data : Datas]

ProfileInputs ==
    [analysis : [valuation : ValuationProfiles, growth : GrowthProfiles,
                 profitability : ProfitabilityProfiles,
                 financial_health : HealthProfiles],
     peer_summary : PeerProfiles, sentiment : SentimentProfiles,
     data : {NoData}]

Inputs == FocusInputs \cup ProfileInputs \cup {ScenarioInput}

(***************************************************************************)
(* Inputs of the peer comparison: the key statistics of the target, the    *)
(* peer list and what the data provider returns for each peer.             *)
(***************************************************************************)
NoStats == [pe_trailing |-> Absent, pe_forward |-> Absent,
            ev_to_ebitda |-> Absent, price_to_sales |-> Absent,
            price_to_book |-> Absent]

\* targets with a trailing P/E only: against peers at 10 the premium is
\* -50, -30, -10, 10, 20, 30 and 40 percent
TargetStats ==
    { NoStats,
      [pe_trailing |-> Num(13), pe_forward |-> Num(11), ev_to_ebitda |-> Num(9),
       price_to_sales |-> Num(7), price_to_book |-> Num(10)],
      [pe_trailing |-> Num(20), pe_forward |-> Num(20), ev_to_ebitda |-> None,
       price_to_sales |-> Num(3), price_to_book |-> Absent],
      [pe_trailing |-> None, pe_forward |-> Num(15), ev_to_ebitda |-> Num(12),
       price_to_sales |-> Num(0), price_to_book |-> Num(4)] }
    \cup {[NoStats EXCEPT !.pe_trailing = Num(v)] : v \in {5, 7, 9, 11, 12, 13, 14}}

PeerStats ==
    { [pe_trailing |-> Num(10), pe_forward |-> Num(10), ev_to_ebitda |-> Num(10),
       price_to_sales |-> Num(10), price_to_book |-> Num(10)],
      [pe_trailing |-> None, pe_forward |-> None, ev_to_ebitda |-> None,
       price_to_sales |-> None, price_to_book |-> None],
      [pe_trailing |-> Num(10), pe_forward |-> Num(-10), ev_to_ebitda |-> Num(-20),
       price_to_sales |-> Num(5), price_to_book |-> Num(0)],
      [pe_trailing |-> Num(30), pe_forward |-> Num(10), ev_to_ebitda |-> Num(20),
       price_to_sales |-> Absent, price_to_book |-> Num(10)] }

\* a peer whose three fetches return, and one peer per fetch that raises
PeerSources ==
    { [overview_ok |-> TRUE, stats_ok |-> TRUE, return_metrics_ok |-> TRUE,
       stats |-> st] : st \in PeerStats }
    \cup
    { [overview_ok |-> FALSE, stats_ok |-> TRUE, return_metrics_ok |-> TRUE,
       stats |-> NoStats],
      [overview_ok |-> TRUE, stats_ok |-> FALSE, return_metrics_ok |-> TRUE,
       stats |-> NoStats],
      [overview_ok |-> TRUE, stats_ok |-> TRUE, return_metrics_ok |-> FALSE,
       stats |-> NoStats] }

\* the peers of NVDA in PEER_MAPPING, in order
PeerPool == << "AMD", "INTC", "QCOM", "AVGO", "TXN" >>

\* longest peer list
MaxPeers == 2

PeerLists == {SubSeq(PeerPool, 1, n) : n \in 0..Min2(MaxPeers, Len(PeerPool))}

PeerRange(peer_list) == {peer_list[i] : i \in DOMAIN peer_list}

NoPeerData == [peer \in {} |-> peer_entry([stats |-> NoStats])]

NoRelativeValuation ==
    [premium_discount |-> [m \in {} |-> Frac(0, 1)],
     avg_premium_discount |-> Frac(0, 1), assessment |-> ""]

(***************************************************************************)
(* Inputs of the thesis: the dictionaries of a whole-company profile, the  *)
(* operating margin trend, technical signals that repeat a factor of       *)
(* another category.                                                       *)
(***************************************************************************)
NoTrend == [k |-> "absent", v |-> <<>>]

MarginTrends ==
    { NoTrend,
      [k |-> "list", v |-> <<>>],
      [k |-> "list", v |-> << Num(30), Num(25), Num(20) >>],
      [k |-> "list", v |-> << Num(20), None, Num(25) >>],
      [k |-> "list", v |-> << Num(30) >>] }

ThesisSentiments ==
    SentimentProfiles
    \cup { [SentimentProfile(Num(800), Num(20), Num(25), Num(75))
              EXCEPT !.momentum.technical_signals =
                  [k |-> "list",
                   v |-> << "Strong free cash flow generation",
                            "Price above 50-day MA",
                            "Low ROIC ({roic:.1%})" >>]],
           [SentimentProfile(Num(650), Absent, Num(20), Absent)
              EXCEPT !.momentum.technical_signals =
                  [k |-> "list",
                   v |-> << "Price below 50-day MA", "Death cross (50MA < 200MA)",
                            "Price below 50-day MA" >>]] }

\* every profile without a margin trend; the margin trends and the signal
\* lists on the profiles of one company
ThesisInputs ==
    [analysis : [valuation : ValuationProfiles, growth : GrowthProfiles,
                 profitability : ProfitabilityProfiles,
                 financial_health : HealthProfiles],
     peer_summary : PeerProfiles \cup
        {[relative_valuation |-> [avg_premium_discount |-> None]]},
     sentiment : SentimentProfiles, margin_trends : {NoTrend}]
    \cup
    [analysis : [valuation : ValuationProfiles, growth : GrowthProfiles,
                 profitability : {NoProfitability,
                                  [gross_margin |-> Num(65),
                                   operating_margin |-> Num(30),
                                   roe |-> Num(30), roic |-> Num(25)]},
                 financial_health : {NoHealth,
                                     [current_ratio |-> Num(25),
                                      debt_to_equity |-> Num(20),
                                      interest_coverage |-> Num(12),
                                      altman_z_score |-> Num(35)]}],
     peer_summary : PeerProfiles, sentiment : ThesisSentiments,
     margin_trends : MarginTrends]

(***************************************************************************)
(* Weight and threshold tables a config.py can hold.                       *)
(***************************************************************************)
Configs ==
    { ShippedConfig,
      [ShippedConfig EXCEPT !.weights.valuation = 35],
      [ShippedConfig EXCEPT !.weights.quality_moat = 0],
      [ShippedConfig EXCEPT !.thresholds.buy = 850],
      [ShippedConfig EXCEPT !.thresholds.sell = 500] }

(***************************************************************************)
(* Inputs of a pipeline run: the dictionaries its stages hand to the       *)
(* scoring stage, the save_charts argument, the stage that raises.         *)
(***************************************************************************)
PipelineInputs ==
    { [analysis |-> NoAnalysis, peer_summary |-> NoPeerSummary,
       sentiment |-> NoSentiment, data |-> NoData],
      ScenarioInput,
      [ScenarioInput EXCEPT
          !.peer_summary.relative_valuation.avg_premium_discount = None] }

(***************************************************************************)
(* Bull and bear case: src/src/report_generator.py, class ThesisGenerator. *)
(* A factor string is held as the f-string that produces it; a formatted   *)
(* number contributes digits, sign, point and percent sign, no letter.     *)
(***************************************************************************)
\* the factor strings of each metric's threshold ladder, in rule order
ValuationLadders ==
    << {"Low P/E ({pe:.1f}x) suggests value", "Reasonable P/E ({pe:.1f}x)",
        "High P/E ({pe:.1f}x) suggests premium valuation",
        "Elevated P/E ({pe:.1f}x)"},
       {"Forward P/E significantly lower - growth expected",
        "Forward P/E higher - potential earnings decline"},
       {"Attractive PEG ratio ({peg:.2f})", "High PEG ratio ({peg:.2f})"},
       {"Trading at {abs(avg_premium):.0f}% discount to peers",
        "Trading at slight discount to peers",
        "Significant premium ({avg_premium:.0f}%) vs peers",
        "Premium valuation vs peers"},
       {"Strong FCF yield ({fcf_yield:.1%})", "Low FCF yield ({fcf_yield:.1%})"} >>

GrowthLadders ==
    << {"Excellent revenue growth ({rev_growth:.1%})",
        "Strong revenue growth ({rev_growth:.1%})",
        "Moderate revenue growth ({rev_growth:.1%})",
        "Revenue declining ({rev_growth:.1%})"},
       {"Strong 3-year revenue CAGR ({rev_cagr:.1%})",
        "Slow revenue growth over 3 years"},
       {"Strong EPS growth ({eps_growth:.1%})",
        "EPS declining ({eps_growth:.1%})"},
       {"Strong FCF growth ({fcf_growth:.1%})", "FCF declining significantly"} >>

ProfitabilityLadders ==
    << {"Excellent gross margin ({gross_margin:.1%})",
        "Good gross margin ({gross_margin:.1%})",
        "Low gross margin ({gross_margin:.1%})"},
       {"Strong operating margin ({op_margin:.1%})",
        "Healthy operating margin ({op_margin:.1%})",
        "Thin operating margin ({op_margin:.1%})"},
       {"Excellent ROE ({roe:.1%})", "Good ROE ({roe:.1%})",
        "Low ROE ({roe:.1%})"},
       {"High ROIC ({roic:.1%}) - efficient capital allocation",
        "Low ROIC ({roic:.1%})"} >>

HealthLadders ==
    << {"Strong current ratio ({current_ratio:.2f})",
        "Healthy current ratio ({current_ratio:.2f})",
        "Low current ratio ({current_ratio:.2f}) - liquidity risk"},
       {"Low leverage (D/E: {de_ratio:.0f}%)",
        "Moderate leverage (D/E: {de_ratio:.0f}%)",
        "High leverage (D/E: {de_ratio:.0f}%)"},
       {"Excellent interest coverage ({int_coverage:.1f}x)",
        "Good interest coverage ({int_coverage:.1f}x)",
        "Low interest coverage ({int_coverage:.1f}x) - debt risk"},
       {"Strong Altman Z-Score ({z_score:.2f}) - low bankruptcy risk",
        "Low Altman Z-Score ({z_score:.2f}) - elevated risk"} >>

SentimentLadders ==
    << {"Strong analyst buy consensus", "Positive analyst sentiment",
        "Bearish analyst sentiment"},
       {"Significant upside to price target ({upside:.0f}%)",
        "Below analyst price target ({upside:.0f}%)"},
       {"Strong earnings beat rate ({beat_rate:.0%})",
        "Weak earnings beat rate ({beat_rate:.0%})"} >>

QualityLadders ==
    << {"High margins suggest pricing power/moat",
        "Healthy margins indicate competitive position"},
       {"High ROE & ROIC suggest durable competitive advantage"},
       {"Consistent revenue growth demonstrates market position"},
       {"Conservative capital structure"},
       {"Strong free cash flow generation"} >>

\* position i of an f-string lies inside a replacement field {...}
InField(s, i) ==
    \E j \in 1..(i - 1) :
        /\ SubSeq(s, j, j) = "{"
        /\ \A k \in (j + 1)..(i - 1) : SubSeq(s, k, k) # "}"

\* what position i contributes to the formatted text: a field as a whole
\* yields one digit
RenderedChar(s, i) ==
    LET c == SubSeq(s, i, i)
    IN  IF c = "}" THEN "0"
        ELSE IF c = "{" \/ InField(s, i) THEN ""
        ELSE c

\* the text of positions lo..hi, built by halves
RECURSIVE RenderedRange(_, _, _)
RenderedRange(s, lo, hi) ==
    IF lo > hi THEN ""
    ELSE IF lo = hi THEN RenderedChar(s, lo)
    ELSE LET mid == (lo + hi) \div 2
         IN  RenderedRange(s, lo, mid) \o RenderedRange(s, mid + 1, hi)

\* the text of a factor: every replacement field rendered as a number
Rendered(s) == RenderedRange(s, 1, Len(s))

LowerChar(c) ==
    CASE c = "A" -> "a" [] c = "B" -> "b" [] c = "C" -> "c" [] c = "D" -> "d"
      [] c = "E" -> "e" [] c = "F" -> "f" [] c = "G" -> "g" [] c = "H" -> "h"
      [] c = "I" -> "i" [] c = "J" -> "j" [] c = "K" -> "k" [] c = "L" -> "l"
      [] c = "M" -> "m" [] c = "N" -> "n" [] c = "O" -> "o" [] c = "P" -> "p"
      [] c = "Q" -> "q" [] c = "R" -> "r" [] c = "S" -> "s" [] c = "T" -> "t"
      [] c = "U" -> "u" [] c = "V" -> "v" [] c = "W" -> "w" [] c = "X" -> "x"
      [] c = "Y" -> "y" [] c = "Z" -> "z" [] OTHER -> c

\* str.lower(), built by halves
RECURSIVE Lower(_)
Lower(s) ==
    IF Len(s) <= 1 THEN LowerChar(s)
    ELSE LET mid == Len(s) \div 2
         IN  Lower(SubSeq(s, 1, mid)) \o Lower(SubSeq(s, mid + 1, Len(s)))

\* word in text
Contains(text, word) ==
    \E t \in {text} :
        \E i \in 1..(Len(t) - Len(word) + 1) :
            SubSeq(t, i, i + Len(word) - 1) = word

\* " ".join(points).lower(), lowered point by point
RECURSIVE JoinLower(_)
JoinLower(points) ==
    IF points = <<>> THEN ""
    ELSE IF Len(points) = 1 THEN Lower(Rendered(points[1]))
    ELSE Lower(Rendered(points[1])) \o " " \o JoinLower(Tail(points))

bull_words == {"strong", "excellent", "high", "good", "healthy", "low p/e",
               "attractive", "growth", "beat", "bullish", "upside", "above"}

bear_words == {"low", "weak", "declining", "high p/e", "elevated", "risk",
               "bearish", "below", "miss", "thin", "concern"}

\* any(word in factor.lower() for word in words)
has_word(factor, words) ==
    \E text \in {Lower(Rendered(factor))} :
        \E word \in words : Contains(text, word)

\* for category, category_factors in factors.items(): the categories in the
\* order calculate_total_score inserts them
factors_in_order(scores) ==
    scores.all_factors.valuation \o scores.all_factors.growth
        \o scores.all_factors.profitability \o scores.all_factors.health
        \o scores.all_factors.momentum \o scores.all_factors.quality

\* the factor strings the scorers can emit and the technical signals, and
\* the two keyword tests evaluated on each of them once
LadderStrings(ladders) == UNION {ladders[n] : n \in DOMAIN ladders}

FactorStrings ==
    LadderStrings(ValuationLadders) \cup LadderStrings(GrowthLadders)
        \cup LadderStrings(ProfitabilityLadders) \cup LadderStrings(HealthLadders)
        \cup LadderStrings(SentimentLadders) \cup LadderStrings(QualityLadders)
        \cup {SignalPool[n] : n \in DOMAIN SignalPool}

bull_factors == {f \in FactorStrings : has_word(f, bull_words)}
bear_factors == {f \in FactorStrings : has_word(f, bear_words)}

is_bull(factor) ==
    IF factor \in FactorStrings THEN factor \in bull_factors
    ELSE has_word(factor, bull_words)

is_bear(factor) ==
    IF factor \in FactorStrings THEN factor \in bear_factors
    ELSE has_word(factor, bear_words)

\* a conditional append
AppendIf(cond, point) == IF cond THEN << point >> ELSE <<>>


\* list(dict.fromkeys(points)): the first occurrence of every point
RECURSIVE unique_points(_)
unique_points(points) ==
    IF points = <<>> THEN <<>>
    ELSE LET init == unique_points(SubSeq(points, 1, Len(points) - 1))
             last == points[Len(points)]
         IN  IF \E i \in DOMAIN init : init[i] = last THEN init
             ELSE Append(init, last)

\* the list returned whole
WholeList(points) == points

\* points[:5]
FirstFive(points) == SubSeq(points, 1, Min2(5, Len(points)))

\* "Operating margins expanding": the list is read with the None entries
\* removed and its first entry compared with its last
margins_expanding(trend) ==
    LET margins == IF trend.k = "list"
                   THEN SelectSeq(trend.v, LAMBDA m : m.k = "num")
                   ELSE <<>>
    IN  /\ trend.k = "list"
        /\ trend.v # <<>>
        /\ Len(margins) >= 2
        /\ margins[1].v > margins[Len(margins)].v

bull_observations(a, p, s, trend, bull_points) ==
    LET rev_growth == GetOr(a.growth.revenue_growth_1y, 0)
        premium == GetDefault(p.relative_valuation.avg_premium_discount, 0)
        upside == GetOr(s.analyst_recommendations.price_targets.upside_pct, 0)
    IN  AppendIf(rev_growth > 15
                    /\ ~Contains(JoinLower(bull_points), "revenue growth"),
                 "Revenue growing at {rev_growth:.1%} YoY")
        \o AppendIf(margins_expanding(trend),
                    "Operating margins expanding year-over-year")
        \o AppendIf(premium.v < -15,
                    "Trading at discount to peers despite comparable fundamentals")
        \o AppendIf(upside > 15,
                    "Analyst consensus implies {upside:.0f}% upside potential")

generate_bull_case(a, p, s, trend, scores) ==
    LET bull_points == SelectSeq(factors_in_order(scores), is_bull)
    IN  FirstFive(unique_points(
            bull_points \o bull_observations(a, p, s, trend, bull_points)))

bear_observations(a, p, s, bear_points) ==
    LET pe == Get(a.valuation.pe_trailing)
        premium == GetDefault(p.relative_valuation.avg_premium_discount, 0)
        de == Get(a.financial_health.debt_to_equity)
        rev_1y == GetOr(a.growth.revenue_growth_1y, 0)
        rev_3y_cagr == GetOr(a.growth.revenue_cagr_3y, 0)
        upside == GetOr(s.analyst_recommendations.price_targets.upside_pct, 0)
    IN  AppendIf(Truthy(pe) /\ pe.v > 35
                    /\ ~Contains(JoinLower(bear_points), "p/e"),
                 "Trading at {pe:.0f}x earnings - limited margin of safety")
        \o AppendIf(premium.v > 20,
                    "Premium valuation relative to peers may not be sustainable")
        \o AppendIf(Truthy(de) /\ de.v > 100,
                    "Elevated debt levels (D/E: {de:.0f}%) increase risk")
        \o AppendIf(rev_3y_cagr > 0 /\ 10 * rev_1y < 7 * rev_3y_cagr,
                    "Revenue growth decelerating vs historical trend")
        \o AppendIf(upside < -10,
                    "Trading above analyst price target ({upside:.0f}%)")

generate_bear_case(a, p, s, scores) ==
    LET bear_points == SelectSeq(factors_in_order(scores), is_bear)
    IN  FirstFive(unique_points(
            bear_points \o bear_observations(a, p, s, bear_points)))

NoMomentum == [momentum_score |-> 0, technical_signals |-> <<>>,
               overall_momentum |-> ""]

(***************************************************************************)
(* State: the inputs of one run and what the operation called on them      *)
(* returned.                                                               *)
(***************************************************************************)
VARIABLES analysis, peer_summary, sentiment, data, last_call, result,
          report, momentum

\* PeerComparison: self.stats, self.peers, self.peer_data, what the provider
\* returns for each peer, the last relative valuation
VARIABLES stats, peers, provider, peer_data, relative_valuation

\* ThesisGenerator: analysis["profitability"]["margin_trends"]
\* ["operating_margin"] and the two lists of the investment thesis
VARIABLES margin_trends, bull_case, bear_case

\* the weight and threshold tables in force; the pipeline run in progress
VARIABLES config, run

\* validators.py: the argument of the last call and what the call did
VARIABLES ticker, validation

\* CacheManager: the object (self.enabled, the entries of self.cache), the
\* clock in hours, what the last operation returned, the calls of the
\* wrapped function; expected and live_until record what the operations so
\* far are said to leave behind
VARIABLES cache_manager, now, cache_result, expected, wrapped, call_count,
          live_until

\* config_loader.py: os.environ, the YAML file main is pointed at,
\* _config.config_data, the module-level settings, what Config.get
\* returned, the settings the run works with
VARIABLES environ, yaml_file, config_data, settings, config_value, used

\* the process: main of run_analysis.py or run_analysis_enhanced.py
VARIABLES proc

validator_vars == <<ticker, validation>>
cache_vars == <<cache_manager, now, cache_result, expected, wrapped,
                call_count, live_until>>
loader_vars == <<environ, yaml_file, config_data, settings, config_value,
                 used>>
infra_vars == <<validator_vars, cache_vars, loader_vars, proc>>

peer_vars == <<stats, peers, provider, peer_data, relative_valuation>>
thesis_vars == <<margin_trends, bull_case, bear_case>>

vars == <<analysis, peer_summary, sentiment, data, last_call, result,
          report, momentum, stats, peers, provider, peer_data,
          relative_valuation, margin_trends, bull_case, bear_case,
          config, run, infra_vars>>

\* Python values besides numbers: strings and booleans
Str(s) == [k |-> "str", v |-> s]
Bool(b) == [k |-> "bool", v |-> b]

\* no validator was called
NoValidation == [call |-> "none", raised |-> FALSE, value |-> None]

\* no CacheManager was built
NoCacheManager == [enabled |-> FALSE, cache |-> <<>>]

\* no function was wrapped
NoWrapped == [func |-> "none", ttl_hours |-> None, args |-> <<>>, calls |-> 0]

\* no process was started
NoProc == [pc |-> "none", script |-> "none", argv |-> None, raises |-> None,
           exit |-> None]

UnusedValidators ==
    /\ ticker = None
    /\ validation = NoValidation

UnusedCache ==
    /\ cache_manager = NoCacheManager
    /\ now = 0
    /\ cache_result = None
    /\ expected = <<>>
    /\ wrapped = NoWrapped
    /\ call_count = <<>>
    /\ live_until = <<>>

UnusedLoader ==
    /\ environ = <<>>
    /\ yaml_file = None
    /\ config_data = <<>>
    /\ settings = <<>>
    /\ config_value = None
    /\ used = <<>>

\* the infrastructure modules are not in use
NoInfra ==
    /\ UnusedValidators
    /\ UnusedCache
    /\ UnusedLoader
    /\ proc = NoProc

\* no run_analysis call in progress
Idle == [pc |-> "idle", save_charts |-> TRUE, fails |-> "none", log |-> <<>>]

\* a PeerComparison without peers
NoPeers ==
    /\ stats = NoStats
    /\ peers = <<>>
    /\ provider = [peer \in {} |-> [stats |-> NoStats]]
    /\ peer_data = NoPeerData
    /\ relative_valuation = NoRelativeValuation

NoThesis ==
    /\ bull_case = <<>>
    /\ bear_case = <<>>

NothingReturned ==
    /\ last_call = "none"
    /\ result = NoScore
    /\ report = NoReport
    /\ momentum = NoMomentum

Init ==
    /\ \E i \in Inputs :
          /\ analysis = i.analysis
          /\ peer_summary = i.peer_summary
          /\ sentiment = i.sentiment
          /\ data = i.data
    /\ NothingReturned
    /\ NoPeers
    /\ margin_trends = NoTrend
    /\ NoThesis
    /\ config = ShippedConfig
    /\ run = Idle
    /\ NoInfra

ScoreCall(name, value) ==
    /\ last_call = "none"
    /\ last_call' = name
    /\ result' = value
    /\ UNCHANGED <<analysis, peer_summary, sentiment, data, report, momentum>>
    /\ UNCHANGED <<peer_vars, thesis_vars, config, run, infra_vars>>

ScoreValuation == ScoreCall("score_valuation", score_valuation(analysis, peer_summary))
ScoreGrowth == ScoreCall("score_growth", score_growth(analysis))
ScoreProfitability == ScoreCall("score_profitability", score_profitability(analysis))
ScoreFinancialHealth ==
    ScoreCall("score_financial_health", score_financial_health(analysis))
ScoreMomentumSentiment ==
    ScoreCall("score_momentum_sentiment", score_momentum_sentiment(sentiment))
ScoreQualityMoat == ScoreCall("score_quality_moat", score_quality_moat(analysis))

CalculateTotalScore ==
    /\ last_call = "none"
    /\ last_call' = "calculate_total_score"
    /\ report' = calculate_total_score(analysis, peer_summary, sentiment)
    /\ UNCHANGED <<analysis, peer_summary, sentiment, data, result, momentum>>
    /\ UNCHANGED <<peer_vars, thesis_vars, config, run, infra_vars>>

CalculateMomentumScore ==
    /\ last_call = "none"
    /\ last_call' = "calculate_momentum_score"
    /\ momentum' = calculate_momentum_score(data)
    /\ UNCHANGED <<analysis, peer_summary, sentiment, data, result, report>>
    /\ UNCHANGED <<peer_vars, thesis_vars, config, run, infra_vars>>

Next ==
    \/ ScoreValuation
    \/ ScoreGrowth
    \/ ScoreProfitability
    \/ ScoreFinancialHealth
    \/ ScoreMomentumSentiment
    \/ ScoreQualityMoat
    \/ CalculateTotalScore
    \/ CalculateMomentumScore

Spec == Init /\ [][Next]_vars

(***************************************************************************)
(* Peer comparison: collect_peer_data on a fresh PeerComparison, then      *)
(* calculate_relative_valuation on what was collected.                     *)
(***************************************************************************)
scoring_inputs == <<analysis, peer_summary, sentiment, data>>

NoScoringInputs ==
    /\ analysis = NoAnalysis
    /\ peer_summary = NoPeerSummary
    /\ sentiment = NoSentiment
    /\ data = NoData

PeerInit ==
    /\ NoScoringInputs
    /\ NothingReturned
    /\ stats \in TargetStats
    /\ peers \in PeerLists
    /\ provider \in [PeerRange(peers) -> PeerSources]
    /\ peer_data = NoPeerData
    /\ relative_valuation = NoRelativeValuation
    /\ margin_trends = NoTrend
    /\ NoThesis
    /\ config = ShippedConfig
    /\ run = Idle
    /\ NoInfra

CollectPeerData ==
    /\ last_call = "none"
    /\ last_call' = "collect_peer_data"
    /\ peer_data' = collect_peer_data(peers, provider, peer_data)
    /\ UNCHANGED <<scoring_inputs, result, report, momentum>>
    /\ UNCHANGED <<stats, peers, provider, relative_valuation>>
    /\ UNCHANGED <<thesis_vars, config, run, infra_vars>>

CalculateRelativeValuation ==
    /\ last_call \in {"none", "collect_peer_data"}
    /\ last_call' = "calculate_relative_valuation"
    /\ relative_valuation' = calculate_relative_valuation(stats, peers, peer_data)
    /\ UNCHANGED <<scoring_inputs, result, report, momentum>>
    /\ UNCHANGED <<stats, peers, provider, peer_data>>
    /\ UNCHANGED <<thesis_vars, config, run, infra_vars>>

PeerNext ==
    \/ CollectPeerData
    \/ CalculateRelativeValuation

PeerSpec == PeerInit /\ [][PeerNext]_vars

(***************************************************************************)
(* Investment thesis: ReportGenerator computes the scores when it is       *)
(* built and hands them to the ThesisGenerator;                            *)
(* generate_investment_thesis asks it for the bull and the bear case.      *)
(***************************************************************************)
ThesisInit ==
    /\ \E i \in ThesisInputs :
          /\ analysis = i.analysis
          /\ peer_summary = i.peer_summary
          /\ sentiment = i.sentiment
          /\ margin_trends = i.margin_trends
    /\ data = NoData
    /\ NothingReturned
    /\ NoPeers
    /\ NoThesis
    /\ config = ShippedConfig
    /\ run = Idle
    /\ NoInfra

\* reached only with scores: a constructor that raised built no generator
GenerateInvestmentThesis ==
    /\ last_call = "calculate_total_score"
    /\ ~report.raised
    /\ last_call' = "generate_investment_thesis"
    /\ bull_case' = generate_bull_case(analysis, peer_summary, sentiment,
                                       margin_trends, report)
    /\ bear_case' = generate_bear_case(analysis, peer_summary, sentiment, report)
    /\ UNCHANGED <<scoring_inputs, result, report, momentum>>
    /\ UNCHANGED <<peer_vars, margin_trends, config, run, infra_vars>>

ThesisNext ==
    \/ CalculateTotalScore
    \/ GenerateInvestmentThesis

ThesisSpec == ThesisInit /\ [][ThesisNext]_vars

(***************************************************************************)
(* Configuration: report_generator.py is imported, which binds the tables  *)
(* of config.py as they are; calculate_total_score then reads them.        *)
(***************************************************************************)
ConfigInit ==
    /\ \E i \in ProfileInputs :
          /\ analysis = i.analysis
          /\ peer_summary = i.peer_summary
          /\ sentiment = i.sentiment
          /\ data = i.data
    /\ NothingReturned
    /\ NoPeers
    /\ margin_trends = NoTrend
    /\ NoThesis
    /\ config \in Configs
    /\ run = Idle
    /\ NoInfra

ImportConfig ==
    /\ last_call = "none"
    /\ last_call' = "import"
    /\ UNCHANGED <<scoring_inputs, result, report, momentum>>
    /\ UNCHANGED <<peer_vars, thesis_vars, config, run, infra_vars>>

ConfiguredTotalScore ==
    /\ last_call = "import"
    /\ last_call' = "calculate_total_score"
    /\ report' = configured_total_score(config, analysis, peer_summary, sentiment)
    /\ UNCHANGED <<scoring_inputs, result, momentum>>
    /\ UNCHANGED <<peer_vars, thesis_vars, config, run, infra_vars>>

ConfigNext ==
    \/ ImportConfig
    \/ ConfiguredTotalScore

ConfigSpec == ConfigInit /\ [][ConfigNext]_vars

(***************************************************************************)
(* Pipeline: src/run_analysis.py, run_analysis (run_analysis_enhanced.py   *)
(* runs the same steps inside a try block that logs and re-raises).  A     *)
(* step that completes is appended to the log; a step that raises ends     *)
(* the run.                                                                *)
(***************************************************************************)
Stages == << "collect", "analyze", "compare peers", "sentiment", "charts",
             "score", "report", "score chart", "save report" >>

StageNames == {Stages[i] : i \in DOMAIN Stages}

PipelineInit ==
    /\ \E i \in PipelineInputs :
          /\ analysis = i.analysis
          /\ peer_summary = i.peer_summary
          /\ sentiment = i.sentiment
          /\ data = i.data
    /\ NothingReturned
    /\ NoPeers
    /\ margin_trends = NoTrend
    /\ NoThesis
    /\ config = ShippedConfig
    /\ run \in [pc : {"collect"}, save_charts : BOOLEAN,
                fails : StageNames \cup {"none"}, log : {<<>>}]
    /\ NoInfra

\* one step of the run: it raises, or it completes and the next one is due;
\* a step that is switched off is passed over
Step(stage, next, enabled) ==
    /\ run.pc = stage
    /\ run' = IF ~enabled THEN [run EXCEPT !.pc = next]
              ELSE IF run.fails = stage THEN [run EXCEPT !.pc = "raised"]
              ELSE [run EXCEPT !.pc = next, !.log = Append(run.log, stage)]

PipelineFrame ==
    UNCHANGED <<scoring_inputs, last_call, result, momentum, peer_vars,
                thesis_vars, config, infra_vars>>

CollectData == Step("collect", "analyze", TRUE) /\ PipelineFrame /\ UNCHANGED report
Analyze == Step("analyze", "compare peers", TRUE) /\ PipelineFrame /\ UNCHANGED report
ComparePeers ==
    Step("compare peers", "sentiment", TRUE) /\ PipelineFrame /\ UNCHANGED report
AnalyzeSentiment ==
    Step("sentiment", "charts", TRUE) /\ PipelineFrame /\ UNCHANGED report

\* if save_charts: chart_gen.save_all_charts(..., scores=None, ...)
GenerateCharts ==
    Step("charts", "score", run.save_charts) /\ PipelineFrame /\ UNCHANGED report

\* ReportGenerator(...): the constructor runs calculate_total_score
Score ==
    /\ run.pc = "score"
    /\ LET scores == calculate_total_score(analysis, peer_summary, sentiment)
       IN  IF scores.raised \/ run.fails = "score"
           THEN /\ run' = [run EXCEPT !.pc = "raised"]
                /\ UNCHANGED report
           ELSE /\ run' = [run EXCEPT !.pc = "report",
                                      !.log = Append(run.log, "score")]
                /\ report' = scores
    /\ PipelineFrame

GenerateReport ==
    Step("report", "score chart", TRUE) /\ PipelineFrame /\ UNCHANGED report

\* if save_charts: chart_gen.create_recommendation_score_chart(scores)
SaveScoreChart ==
    Step("score chart", "save report", run.save_charts)
        /\ PipelineFrame /\ UNCHANGED report

SaveReport == Step("save report", "done", TRUE) /\ PipelineFrame /\ UNCHANGED report

PipelineNext ==
    \/ CollectData
    \/ Analyze
    \/ ComparePeers
    \/ AnalyzeSentiment
    \/ GenerateCharts
    \/ Score
    \/ GenerateReport
    \/ SaveScoreChart
    \/ SaveReport

PipelineSpec == PipelineInit /\ [][PipelineNext]_vars

(***************************************************************************)
(* Ticker validation: src/src/validators.py.  A ticker is any Python       *)
(* value; a string is held character by character.                         *)
(***************************************************************************)
\* bool(x) of a Python value
bool(x) ==
    CASE x.k = "num" -> x.v # 0
      [] x.k = "str" -> x.v # ""
      [] x.k = "bool" -> x.v
      [] OTHER -> FALSE

\* isinstance(x, str)
isinstance_str(x) == x.k = "str"

\* the characters str.strip() removes
Whitespace == {" ", "\t", "\n"}

RECURSIVE lstrip(_)
lstrip(s) ==
    IF s = "" THEN ""
    ELSE IF SubSeq(s, 1, 1) \in Whitespace THEN lstrip(SubSeq(s, 2, Len(s)))
    ELSE s

RECURSIVE rstrip(_)
rstrip(s) ==
    IF s = "" THEN ""
    ELSE IF SubSeq(s, Len(s), Len(s)) \in Whitespace
         THEN rstrip(SubSeq(s, 1, Len(s) - 1))
    ELSE s

\* str.strip()
strip(s) == rstrip(lstrip(s))

UpperChar(c) ==
    CASE c = "a" -> "A" [] c = "b" -> "B" [] c = "c" -> "C" [] c = "d" -> "D"
      [] c = "e" -> "E" [] c = "f" -> "F" [] c = "g" -> "G" [] c = "h" -> "H"
      [] c = "i" -> "I" [] c = "j" -> "J" [] c = "k" -> "K" [] c = "l" -> "L"
      [] c = "m" -> "M" [] c = "n" -> "N" [] c = "o" -> "O" [] c = "p" -> "P"
      [] c = "q" -> "Q" [] c = "r" -> "R" [] c = "s" -> "S" [] c = "t" -> "T"
      [] c = "u" -> "U" [] c = "v" -> "V" [] c = "w" -> "W" [] c = "x" -> "X"
      [] c = "y" -> "Y" [] c = "z" -> "Z" [] OTHER -> c

\* str.upper()
RECURSIVE upper(_)
upper(s) ==
    IF s = "" THEN ""
    ELSE UpperChar(SubSeq(s, 1, 1)) \o upper(SubSeq(s, 2, Len(s)))

\* the character class [A-Z]
A_Z == {"A", "B", "C", "D", "E", "F", "G", "H", "I", "J", "K", "L", "M",
        "N", "O", "P", "Q", "R", "S", "T", "U", "V", "W", "X", "Y", "Z"}

\* a symbol of up to seven letters
pattern_step_seven(q, c) ==
    CASE q[1] = "sym" /\ c \in A_Z /\ q[2] < 7 -> <<"sym", q[2] + 1>>
      [] q[1] = "sym" /\ c = "." /\ q[2] >= 1 -> <<"dot", 0>>
      [] q[1] = "dot" /\ c \in A_Z -> <<"ext", 1>>
      [] q[1] = "ext" /\ c \in A_Z /\ q[2] < 3 -> <<"ext", q[2] + 1>>
      [] q[1] \in {"sym", "ext"} /\ c = "\n" /\ q[2] >= 1 -> <<"end", 0>>
      [] OTHER -> <<"fail", 0>>

\* pattern = r"^[A-Z]{1,5}(\.[A-Z]{1,3})?$" as the automaton re.match runs:
\* state <<part, n>> after n letters of the symbol ("sym") or of the exchange
\* suffix ("ext"), "dot" after the point, "end" after a final newline (which
\* $ lets pass), "fail" once no match is left
pattern_step(q, c) ==
    CASE q[1] = "sym" /\ c \in A_Z /\ q[2] < 5 -> <<"sym", q[2] + 1>>
      [] q[1] = "sym" /\ c = "." /\ q[2] >= 1 -> <<"dot", 0>>
      [] q[1] = "dot" /\ c \in A_Z -> <<"ext", 1>>
      [] q[1] = "ext" /\ c \in A_Z /\ q[2] < 3 -> <<"ext", q[2] + 1>>
      [] q[1] \in {"sym", "ext"} /\ c = "\n" /\ q[2] >= 1 -> <<"end", 0>>
      [] OTHER -> <<"fail", 0>>

RECURSIVE pattern_run(_, _)
pattern_run(q, s) ==
    IF s = "" THEN q
    ELSE pattern_run(pattern_step(q, SubSeq(s, 1, 1)), SubSeq(s, 2, Len(s)))

\* re.match(pattern, ticker) is not None
re_match(s) ==
    LET q == pattern_run(<<"sym", 0>>, s)
    IN  \/ q[1] \in {"sym", "ext"} /\ q[2] >= 1
        \/ q[1] = "end"

Raises(call) == [call |-> call, raised |-> TRUE, value |-> None]
Returns(call, v) == [call |-> call, raised |-> FALSE, value |-> v]

\* validate_ticker(ticker)
validate_ticker(t) ==
    IF ~bool(t) \/ ~isinstance_str(t) THEN Raises("validate_ticker")
    ELSE IF ~re_match(upper(strip(t.v))) THEN Raises("validate_ticker")
    ELSE Returns("validate_ticker", Bool(TRUE))

\* sanitize_ticker(ticker)
sanitize_ticker(t) ==
    IF ~bool(t) \/ ~isinstance_str(t) THEN Raises("sanitize_ticker")
    ELSE LET u == Str(upper(strip(t.v)))
         IN  IF validate_ticker(u).raised THEN Raises("sanitize_ticker")
             ELSE Returns("sanitize_ticker", u)

(***************************************************************************)
(* Inputs of the validators: every string of at most MaxTickerLen          *)
(* characters over a small alphabet, the longer shapes at the edges of the *)
(* pattern with and without padding, and values that are not strings.      *)
(***************************************************************************)
MaxTickerLen == 4

TickerAlphabet == {"a", "B", ".", " ", "1", "\n"}

RECURSIVE StringsUpTo(_)
StringsUpTo(n) ==
    IF n = 0 THEN {""}
    ELSE LET shorter == StringsUpTo(n - 1)
         IN  shorter \cup {s \o c : s \in shorter, c \in TickerAlphabet}

EdgeTickers ==
    {p \o sym \o ext \o q :
        p \in {"", " ", "\t "},
        sym \in {"", "aapl", "GOOGL", "googl", "TOOLONG", "ABC@", "123"},
        ext \in {"", ".", ".b", ".KS", ".abc", ".LONG", ".B.B"},
        q \in {"", " ", "\n"}}

TickerInputs ==
    {Str(s) : s \in StringsUpTo(MaxTickerLen) \cup EdgeTickers}
        \cup {None, Num(0), Num(5), Bool(TRUE)}

(***************************************************************************)
(* Validators: one call of validate_ticker or of sanitize_ticker; what     *)
(* sanitize_ticker returned may be handed to it again.                     *)
(***************************************************************************)
ValidatorIdle ==
    /\ NothingReturned
    /\ NoPeers
    /\ margin_trends = NoTrend
    /\ NoThesis
    /\ config = ShippedConfig
    /\ run = Idle
    /\ analysis = NoAnalysis
    /\ peer_summary = NoPeerSummary
    /\ sentiment = NoSentiment
    /\ data = NoData

ValidatorInit ==
    /\ ValidatorIdle
    /\ ticker \in TickerInputs
    /\ validation = NoValidation
    /\ UnusedCache
    /\ UnusedLoader
    /\ proc = NoProc

ValidatorFrame ==
    UNCHANGED <<scoring_inputs, last_call, result, report, momentum,
                peer_vars, thesis_vars, config, run, cache_vars,
                loader_vars, proc>>

ValidateTicker ==
    /\ validation.call = "none"
    /\ validation' = validate_ticker(ticker)
    /\ UNCHANGED ticker
    /\ ValidatorFrame

SanitizeTicker ==
    /\ validation.call = "none"
    /\ validation' = sanitize_ticker(ticker)
    /\ UNCHANGED ticker
    /\ ValidatorFrame

\* sanitize_ticker(sanitize_ticker(ticker))
SanitizeAgain ==
    /\ validation.call = "sanitize_ticker"
    /\ ~validation.raised
    /\ ticker' = validation.value
    /\ validation' =
          [sanitize_ticker(validation.value) EXCEPT !.call = "sanitize_ticker again"]
    /\ ValidatorFrame

ValidatorNext ==
    \/ ValidateTicker
    \/ SanitizeTicker
    \/ SanitizeAgain

ValidatorSpec == ValidatorInit /\ [][ValidatorNext]_vars

(***************************************************************************)
(* Cache manager: src/src/cache_manager.py, class CacheManager over a      *)
(* diskcache.Cache.  self.cache is held as its entries, a function from    *)
(* key to [value, expire_time]; a disabled manager has none.  The clock    *)
(* counts hours; expire_time is None or the hour from which the entry is   *)
(* no longer returned.  len() of a diskcache.Cache counts its entries,     *)
(* expired ones included, and the class defines no __bool__, so the object *)
(* is false exactly when it holds no entry.                                *)
(***************************************************************************)
\* CacheManager(cache_dir, enabled) on a directory holding entries
CacheManager(entries, enabled) ==
    [enabled |-> enabled, cache |-> IF enabled THEN entries ELSE <<>>]

\* not self.cache
not_cache(cm) == ~cm.enabled \/ DOMAIN cm.cache = {}

\* expire = ttl_hours * 3600, counted from the time of the call
expire_time(t, ttl_hours) ==
    IF ttl_hours = None THEN None ELSE Num(t + ttl_hours.v)

\* the entry is still returned at time t
Live(entry, t) == entry.expire_time = None \/ entry.expire_time.v > t

\* diskcache.Cache.get(key, default=default)
Cache_get(entries, t, key, default) ==
    IF key \in DOMAIN entries /\ Live(entries[key], t)
    THEN entries[key].value ELSE default

\* diskcache.Cache.set(key, value, expire=expire)
Cache_set(entries, t, key, value, ttl_hours) ==
    [k \in DOMAIN entries \cup {key} |->
        IF k = key
        THEN [value |-> value, expire_time |-> expire_time(t, ttl_hours)]
        ELSE entries[k]]

\* the entries left by diskcache.Cache.delete(key)
Cache_delete(entries, key) ==
    [k \in DOMAIN entries \ {key} |-> entries[k]]

\* CacheManager.get(key, default)
get(cm, t, key, default) ==
    IF ~cm.enabled \/ not_cache(cm) THEN default
    ELSE Cache_get(cm.cache, t, key, default)

\* CacheManager.set(key, value, ttl_hours): the manager it leaves, what it
\* returns
set(cm, t, key, value, ttl_hours) ==
    IF ~cm.enabled \/ not_cache(cm) THEN [cm |-> cm, ret |-> Bool(FALSE)]
    ELSE [cm |-> [cm EXCEPT !.cache = Cache_set(@, t, key, value, ttl_hours)],
          ret |-> Bool(TRUE)]

\* CacheManager.delete(key)
delete(cm, key) ==
    IF ~cm.enabled \/ not_cache(cm) THEN [cm |-> cm, ret |-> Bool(FALSE)]
    ELSE [cm |-> [cm EXCEPT !.cache = Cache_delete(@, key)],
          ret |-> Bool(key \in DOMAIN cm.cache)]

\* CacheManager.clear()
clear(cm) ==
    IF ~cm.enabled \/ not_cache(cm) THEN [cm |-> cm, ret |-> Bool(FALSE)]
    ELSE [cm |-> [cm EXCEPT !.cache = <<>>], ret |-> Bool(TRUE)]

(***************************************************************************)
(* Inputs of the cache manager: keys, values, lifetimes, defaults, and the *)
(* entries the cache directory holds when the manager is built (none in a  *)
(* fresh directory, one left by an earlier process otherwise).             *)
(***************************************************************************)
MaxClock == 2

CacheKeys == {"test_key", "key1"}
CacheValues == {Str("test_value"), None}
Lifetimes == {None, Num(1)}
Defaults == {None, Str("default")}

CacheDirectories ==
    { <<>>,
      [k \in {"earlier"} |-> [value |-> Str("kept"), expire_time |-> None]] }

\* the operation performed last, when, and what it returned
Did(op, key, default, ret) ==
    [op |-> op, key |-> key, default |-> default, ret |-> ret, at |-> now]

(***************************************************************************)
(* Cache manager: get, set, delete and clear on one manager while the      *)
(* clock advances.  expected follows the operations as they are described: *)
(* set leaves the entry, delete and clear remove it.                       *)
(***************************************************************************)
CacheInit ==
    /\ ValidatorIdle
    /\ UnusedValidators
    /\ UnusedLoader
    /\ proc = NoProc
    /\ \E entries \in CacheDirectories, enabled \in BOOLEAN :
          /\ cache_manager = CacheManager(entries, enabled)
          /\ expected = cache_manager.cache
    /\ now = 0
    /\ cache_result = None
    /\ wrapped = NoWrapped
    /\ call_count = <<>>
    /\ live_until = <<>>

CacheFrame ==
    UNCHANGED <<scoring_inputs, last_call, result, report, momentum,
                peer_vars, thesis_vars, config, run, validator_vars,
                loader_vars, proc>>

CacheGet ==
    /\ \E key \in CacheKeys \cup {"earlier"}, default \in Defaults :
          cache_result' =
              Did("get", key, default, get(cache_manager, now, key, default))
    /\ UNCHANGED <<cache_manager, now, expected, wrapped, call_count, live_until>>
    /\ CacheFrame

CacheSet ==
    /\ \E key \in CacheKeys, value \in CacheValues, ttl_hours \in Lifetimes :
          LET done == set(cache_manager, now, key, value, ttl_hours)
          IN  /\ cache_manager' = done.cm
              /\ cache_result' = Did("set", key, None, done.ret)
              /\ expected' = Cache_set(expected, now, key, value, ttl_hours)
    /\ UNCHANGED <<now, wrapped, call_count, live_until>>
    /\ CacheFrame

CacheDelete ==
    /\ \E key \in CacheKeys \cup {"earlier"} :
          LET done == delete(cache_manager, key)
          IN  /\ cache_manager' = done.cm
              /\ cache_result' = Did("delete", key, None, done.ret)
              /\ expected' = Cache_delete(expected, key)
    /\ UNCHANGED <<now, wrapped, call_count, live_until>>
    /\ CacheFrame

CacheClear ==
    /\ LET done == clear(cache_manager)
       IN  /\ cache_manager' = done.cm
           /\ cache_result' = Did("clear", "", None, done.ret)
           /\ expected' = <<>>
    /\ UNCHANGED <<now, wrapped, call_count, live_until>>
    /\ CacheFrame

\* an hour passes
Tick ==
    /\ now < MaxClock
    /\ now' = now + 1
    /\ UNCHANGED <<cache_manager, cache_result, expected, wrapped, call_count,
                   live_until>>
    /\ CacheFrame

CacheNext ==
    \/ CacheGet
    \/ CacheSet
    \/ CacheDelete
    \/ CacheClear
    \/ Tick

CacheSpec == CacheInit /\ [][CacheNext]_vars

(***************************************************************************)
(* The cached decorator: CacheManager.cached and _generate_key.  An        *)
(* argument list is [args, kwargs]: the positional values and the keyword  *)
(* items, held in the order sorted() gives them.                           *)
(***************************************************************************)
\* str(arg)
str(x) ==
    CASE x.k = "num" -> ToString(x.v)
      [] x.k = "str" -> x.v
      [] x.k = "bool" -> IF x.v THEN "True" ELSE "False"
      [] OTHER -> "None"

\* ":".join(key_parts)
RECURSIVE join(_)
join(key_parts) ==
    IF key_parts = <<>> THEN ""
    ELSE IF Len(key_parts) = 1 THEN key_parts[1]
    ELSE key_parts[1] \o ":" \o join(Tail(key_parts))

\* hashlib.md5(key_string.encode()).hexdigest(): one digest per string
md5(key_string) == "md5<" \o key_string \o ">"

\* CacheManager._generate_key(prefix, *args, **kwargs)
_generate_key(prefix, a) ==
    md5(join(<<prefix>>
             \o [i \in DOMAIN a.args |-> str(a.args[i])]
             \o [i \in DOMAIN a.kwargs |->
                    a.kwargs[i][1] \o "=" \o str(a.kwargs[i][2])]))

\* the wrapped functions: echo returns its arguments, nothing returns None
func(name, a) == IF name = "echo" THEN a ELSE None

\* wrapper(*args, **kwargs) of cached(prefix, ttl_hours)(func): the manager
\* it leaves, what it returns, whether func was executed
wrapper(cm, t, prefix, ttl_hours, name, a) ==
    IF ~cm.enabled THEN [cm |-> cm, ret |-> func(name, a), executed |-> TRUE]
    ELSE LET cache_key == _generate_key(prefix, a)
             cached_value == get(cm, t, cache_key, None)
         IN  IF cached_value # None
             THEN [cm |-> cm, ret |-> cached_value, executed |-> FALSE]
             ELSE [cm |-> set(cm, t, cache_key, func(name, a), ttl_hours).cm,
                   ret |-> func(name, a), executed |-> TRUE]

(***************************************************************************)
(* Inputs of the decorator: argument lists that differ in type only, in    *)
(* how they split around ":" and in keyword against positional form.       *)
(***************************************************************************)
MaxCalls == 3

Positional(values) == [args |-> values, kwargs |-> <<>>]

ArgLists ==
    { Positional(<<Num(5)>>), Positional(<<Str("5")>>),
      Positional(<<Str("a:b")>>), Positional(<<Str("a"), Str("b")>>),
      Positional(<<Str("x=5")>>),
      [args |-> <<>>, kwargs |-> << <<"x", Num(5)>> >>] }

WrappedFunctions == {"echo", "nothing"}

(***************************************************************************)
(* Decorator: calls of one wrapped function while the clock advances.      *)
(* call_count counts the executions of the function per argument list;     *)
(* live_until holds, per argument list, the result of its last execution   *)
(* and the hour its entry expires.                                         *)
(***************************************************************************)
NeverCalled == [result |-> None, executed |-> FALSE, expire_time |-> None]

DecoratorInit ==
    /\ ValidatorIdle
    /\ UnusedValidators
    /\ UnusedLoader
    /\ proc = NoProc
    /\ \E entries \in CacheDirectories, enabled \in BOOLEAN :
          cache_manager = CacheManager(entries, enabled)
    /\ expected = <<>>
    /\ now = 0
    /\ cache_result = None
    /\ \E name \in WrappedFunctions, ttl_hours \in Lifetimes :
          wrapped = [func |-> name, ttl_hours |-> ttl_hours, args |-> <<>>,
                     calls |-> 0]
    /\ call_count = [a \in ArgLists |-> 0]
    /\ live_until = [a \in ArgLists |-> NeverCalled]

CallWrapped ==
    /\ wrapped.calls < MaxCalls
    /\ \E a \in ArgLists :
          LET done == wrapper(cache_manager, now, "test_func",
                              wrapped.ttl_hours, wrapped.func, a)
          IN  /\ cache_manager' = done.cm
              /\ cache_result' = Did("call", "", None, done.ret)
              /\ wrapped' = [wrapped EXCEPT !.args = a, !.calls = @ + 1]
              /\ call_count' =
                    [call_count EXCEPT ![a] = IF done.executed THEN @ + 1 ELSE @]
              /\ live_until' =
                    IF done.executed
                    THEN [live_until EXCEPT ![a] =
                            [result |-> done.ret, executed |-> TRUE,
                             expire_time |->
                                 expire_time(now, wrapped.ttl_hours)]]
                    ELSE live_until
    /\ UNCHANGED <<now, expected>>
    /\ CacheFrame

DecoratorNext ==
    \/ CallWrapped
    \/ Tick

DecoratorSpec == DecoratorInit /\ [][DecoratorNext]_vars

(***************************************************************************)
(* Configuration loader: src/src/config_loader.py.  os.environ and the     *)
(* mapping a YAML file holds are functions from name to Python value; a    *)
(* float is held in hundredths.                                            *)
(***************************************************************************)
Float(n) == [k |-> "float", v |-> n]

\* Config.get raises ValueError, returns v
ValueError == [raised |-> TRUE, value |-> None]
Value(v) == [raised |-> FALSE, value |-> v]

\* str_to_bool(value)
str_to_bool(value) == Lower(value) \in {"true", "1", "yes", "on"}

Digit(c) ==
    CASE c = "0" -> 0 [] c = "1" -> 1 [] c = "2" -> 2 [] c = "3" -> 3
      [] c = "4" -> 4 [] c = "5" -> 5 [] c = "6" -> 6 [] c = "7" -> 7
      [] c = "8" -> 8 [] c = "9" -> 9 [] OTHER -> -1

IsDigits(s) ==
    /\ s # ""
    /\ \A i \in 1..Len(s) : Digit(SubSeq(s, i, i)) >= 0

\* the number a string of digits denotes
RECURSIVE Decimal(_)
Decimal(s) ==
    IF s = "" THEN 0
    ELSE 10 * Decimal(SubSeq(s, 1, Len(s) - 1)) + Digit(SubSeq(s, Len(s), Len(s)))

\* the position of the first "." of s, 0 if there is none
PointAt(s) ==
    IF \E i \in 1..Len(s) : SubSeq(s, i, i) = "."
    THEN CHOOSE i \in 1..Len(s) :
            /\ SubSeq(s, i, i) = "."
            /\ \A j \in 1..(i - 1) : SubSeq(s, j, j) # "."
    ELSE 0

\* int(env_value): surrounding whitespace is dropped, a sign is allowed
int(env_value) ==
    LET t == strip(env_value)
        signed == t # "" /\ SubSeq(t, 1, 1) \in {"+", "-"}
        digits == IF signed THEN SubSeq(t, 2, Len(t)) ELSE t
    IN  IF ~IsDigits(digits) THEN ValueError
        ELSE Value(Num(IF signed /\ SubSeq(t, 1, 1) = "-"
                       THEN 0 - Decimal(digits) ELSE Decimal(digits)))

\* float(env_value) for plain decimal numerals of at most two decimals
float(env_value) ==
    LET t == strip(env_value)
        signed == t # "" /\ SubSeq(t, 1, 1) \in {"+", "-"}
        body == IF signed THEN SubSeq(t, 2, Len(t)) ELSE t
        p == PointAt(body)
        whole == IF p = 0 THEN body ELSE SubSeq(body, 1, p - 1)
        frac == IF p = 0 THEN "" ELSE SubSeq(body, p + 1, Len(body))
        hundredths ==
            100 * Decimal(whole)
                + (IF Len(frac) = 1 THEN 10 * Decimal(frac) ELSE Decimal(frac))
    IN  IF \/ whole = "" /\ frac = ""
           \/ whole # "" /\ ~IsDigits(whole)
           \/ frac # "" /\ ~IsDigits(frac)
           \/ Len(frac) > 2
        THEN ValueError
        ELSE Value(Float(IF signed /\ SubSeq(t, 1, 1) = "-"
                         THEN 0 - hundredths ELSE hundredths))

\* os.getenv(env_key)
getenv(env, env_key) ==
    IF env_key \in DOMAIN env THEN Str(env[env_key]) ELSE None

\* the YAML file consulted before the environment
Config_get_yaml_first(loaded, env, key, default, env_var) ==
    LET env_key == IF bool(env_var) THEN env_var.v ELSE upper(key)
        env_value == getenv(env, env_key)
    IN  IF key \in DOMAIN loaded THEN Value(loaded[key])
        ELSE IF env_value # None
        THEN CASE default.k = "bool" -> Value(Bool(str_to_bool(env_value.v)))
               [] default.k = "num" -> int(env_value.v)
               [] default.k = "float" -> float(env_value.v)
               [] OTHER -> Value(env_value)
        ELSE Value(default)

\* Config.get(key, default, env_var) on self.config_data = loaded
Config_get(loaded, env, key, default, env_var) ==
    LET env_key == IF bool(env_var) THEN env_var.v ELSE upper(key)
        env_value == getenv(env, env_key)
    IN  IF env_value # None
        THEN CASE default.k = "bool" -> Value(Bool(str_to_bool(env_value.v)))
               [] default.k = "num" -> int(env_value.v)
               [] default.k = "float" -> float(env_value.v)
               [] OTHER -> Value(env_value)
        ELSE IF key \in DOMAIN loaded THEN Value(loaded[key])
        ELSE Value(default)

\* Config(config_file).config_data: the mapping of the file when a path is
\* given and the file exists
Config(file) ==
    IF file.given /\ file.exists THEN file.data ELSE <<>>

\* TICKER, OUTPUT_DIR, CHARTS_DIR as the module binds them from _config
module_settings(loaded, env) ==
    [TICKER |->
        Config_get(loaded, env, "default_ticker", Str("NVDA"),
                   Str("DEFAULT_TICKER")).value,
     OUTPUT_DIR |->
        Config_get(loaded, env, "output_dir", Str("output"),
                   Str("OUTPUT_DIR")).value,
     CHARTS_DIR |->
        Config_get(loaded, env, "charts_dir", Str("output/charts"),
                   Str("CHARTS_DIR")).value]

\* x or y
or(x, y) == IF bool(x) THEN x ELSE y

\* os.path.join(a, b) of two relative paths
path_join(a, b) == Str(a.v \o "/" \o b.v)

(***************************************************************************)
(* Inputs of the loader: what the environment sets, what the YAML file     *)
(* holds, the command line, the calls of Config.get.                       *)
(***************************************************************************)
EnvNames == {"TEST_VALUE", "INT_VALUE", "FLOAT_VALUE", "BOOL_VALUE",
             "MAX_WORKERS", "DEFAULT_TICKER", "OUTPUT_DIR"}

EnvTexts == {"from_env", "42", "3.14", "true", "Yes", "0", "", " 7 ", "-3"}

Environments ==
    {<<>>} \cup {[n \in {name} |-> text] : name \in EnvNames, text \in EnvTexts}

YamlMapping ==
    [k \in {"default_ticker", "output_dir", "charts_dir", "int_value",
            "bool_value", "max_workers", "test_value"} |->
        CASE k = "default_ticker" -> Str("AAPL")
          [] k = "output_dir" -> Str("reports")
          [] k = "charts_dir" -> Str("reports/figures")
          [] k = "int_value" -> Num(10)
          [] k = "bool_value" -> Bool(FALSE)
          [] k = "max_workers" -> None
          [] OTHER -> Str("from_yaml")]

\* no --config; a path to no file; an empty file; a file with settings
YamlFiles ==
    { [given |-> FALSE, exists |-> FALSE, data |-> <<>>],
      [given |-> TRUE, exists |-> FALSE, data |-> <<>>],
      [given |-> TRUE, exists |-> TRUE, data |-> <<>>],
      [given |-> TRUE, exists |-> TRUE, data |-> YamlMapping] }

CommandLines ==
    [ticker : {None, Str("msft")}, output_dir : {None, Str("out")}]

GetCalls ==
    { [key |-> "test_value", default |-> Str("default"), env_var |-> Str("TEST_VALUE")],
      [key |-> "int_value", default |-> Num(0), env_var |-> Str("INT_VALUE")],
      [key |-> "float_value", default |-> Float(0), env_var |-> Str("FLOAT_VALUE")],
      [key |-> "bool_value", default |-> Bool(FALSE), env_var |-> Str("BOOL_VALUE")],
      [key |-> "max_workers", default |-> Num(5), env_var |-> None],
      [key |-> "nonexistent", default |-> None, env_var |-> None] }

(***************************************************************************)
(* Loader: run_analysis_enhanced.py imports config_loader, which builds    *)
(* _config = Config() and binds the module-level settings; main calls      *)
(* load_config(args.config); run_analysis works out the ticker and the     *)
(* directories.  Config.get may be called on _config at any time.          *)
(***************************************************************************)
LoaderInit ==
    /\ ValidatorIdle
    /\ UnusedValidators
    /\ UnusedCache
    /\ environ \in Environments
    /\ yaml_file \in YamlFiles
    /\ config_data = <<>>
    /\ settings = <<>>
    /\ config_value = None
    /\ used = <<>>
    /\ \E argv \in CommandLines :
          proc = [NoProc EXCEPT !.pc = "import",
                                !.script = "run_analysis_enhanced.py",
                                !.argv = argv]

LoaderFrame ==
    UNCHANGED <<scoring_inputs, last_call, result, report, momentum,
                peer_vars, thesis_vars, config, run, validator_vars,
                cache_vars, environ, yaml_file>>

\* from src.config_loader import load_config, get_config, TICKER, ...
ImportConfigLoader ==
    /\ proc.pc = "import"
    /\ config_data' = Config([given |-> FALSE, exists |-> FALSE, data |-> <<>>])
    /\ settings' = module_settings(config_data', environ)
    /\ proc' = [proc EXCEPT !.pc = "main"]
    /\ UNCHANGED <<config_value, used>>
    /\ LoaderFrame

\* config = load_config(args.config)
LoadConfig ==
    /\ proc.pc = "main"
    /\ config_data' = Config(yaml_file)
    /\ proc' = [proc EXCEPT !.pc = "configured"]
    /\ UNCHANGED <<settings, config_value, used>>
    /\ LoaderFrame

\* ticker = args.ticker or TICKER; in run_analysis: final_output_dir =
\* output_dir or OUTPUT_DIR, charts_dir = os.path.join(final_output_dir,
\* "charts")
UseSettings ==
    /\ proc.pc = "configured"
    /\ LET final_output_dir == or(proc.argv.output_dir, settings.OUTPUT_DIR)
       IN  used' = [ticker |-> or(proc.argv.ticker, settings.TICKER),
                    output_dir |-> final_output_dir,
                    charts_dir |-> path_join(final_output_dir, Str("charts"))]
    /\ proc' = [proc EXCEPT !.pc = "running"]
    /\ UNCHANGED <<config_data, settings, config_value>>
    /\ LoaderFrame

\* get_config().get(key, default, env_var); self is the config_data of the
\* Config the call is made on
ConfigGet ==
    /\ proc.pc # "import"
    /\ \E c \in GetCalls :
          config_value' =
              [call |-> c, self |-> config_data,
               got |-> Config_get(config_data, environ, c.key, c.default,
                                  c.env_var)]
    /\ UNCHANGED <<config_data, settings, used, proc>>
    /\ LoaderFrame

LoaderNext ==
    \/ ImportConfigLoader
    \/ LoadConfig
    \/ UseSettings
    \/ ConfigGet

LoaderSpec == LoaderInit /\ [][LoaderNext]_vars

(***************************************************************************)
(* Entry points: main of src/run_analysis.py and of                        *)
(* src/run_analysis_enhanced.py around run_analysis, whose steps are those *)
(* of the pipeline above.  proc.raises names the class of the exception a  *)
(* failing step raises and whether print_summary raises; proc.exit is the  *)
(* exit status of the process once it has ended and whether main returned  *)
(* it.                                                                     *)
(***************************************************************************)
ExceptionClasses ==
    {"DataCollectionError", "AnalysisError", "ReportGenerationError",
     "ValueError", "KeyboardInterrupt"}

Exit(code) == [returned |-> TRUE, code |-> code]

\* an exception main does not catch ends the interpreter with status 1, a
\* KeyboardInterrupt with 1 or as killed by SIGINT (130)
Uncaught == {[returned |-> FALSE, code |-> c] : c \in {1, 130}}

\* the class of the exception that ended run_analysis: the scoring step
\* raises TypeError on its own for some inputs
raised_class ==
    IF /\ calculate_total_score(analysis, peer_summary, sentiment).raised
       /\ run.fails \in {"none", "score", "report", "score chart", "save report"}
    THEN "TypeError"
    ELSE proc.raises.analysis

\* a catch-all clause that reports success
except_swallowing(script, class) ==
    IF script = "run_analysis_enhanced.py"
    THEN CASE class = "ValidationError" -> {Exit(1)}
           [] class = "DataCollectionError" -> {Exit(1)}
           [] class \in {"AnalysisError", "ReportGenerationError"} -> {Exit(1)}
           [] class = "KeyboardInterrupt" -> {Exit(130)}
           [] OTHER -> {Exit(0)}
    ELSE IF class = "KeyboardInterrupt" THEN Uncaught ELSE {Exit(1)}

\* the except clauses of main: the exit statuses a raised exception leads to
except(script, class) ==
    IF script = "run_analysis_enhanced.py"
    THEN CASE class = "ValidationError" -> {Exit(1)}
           [] class = "DataCollectionError" -> {Exit(1)}
           [] class \in {"AnalysisError", "ReportGenerationError"} -> {Exit(1)}
           [] class = "KeyboardInterrupt" -> {Exit(130)}
           [] OTHER -> {Exit(1)}
    ELSE IF class = "KeyboardInterrupt" THEN Uncaught ELSE {Exit(1)}

(***************************************************************************)
(* Inputs of a process: the script, its command line, the environment, the *)
(* inputs of the pipeline and where it fails.                              *)
(***************************************************************************)
Scripts == {"run_analysis.py", "run_analysis_enhanced.py"}

MainCommandLines ==
    [ticker : {None, Str("msft"), Str("INVALID@")}, clear_cache : BOOLEAN,
     quiet : BOOLEAN]

MainEnvironments == {<<>>, [n \in {"DEFAULT_TICKER"} |-> ""]}

(***************************************************************************)
(* Process: main up to the call of run_analysis, the steps of the          *)
(* pipeline, then the return of main or one of its except clauses.         *)
(***************************************************************************)
MainInit ==
    /\ \E i \in PipelineInputs :
          /\ analysis = i.analysis
          /\ peer_summary = i.peer_summary
          /\ sentiment = i.sentiment
          /\ data = i.data
    /\ NothingReturned
    /\ NoPeers
    /\ margin_trends = NoTrend
    /\ NoThesis
    /\ config = ShippedConfig
    /\ run \in [pc : {"idle"}, save_charts : BOOLEAN,
                fails : StageNames \cup {"none"}, log : {<<>>}]
    /\ UnusedValidators
    /\ UnusedCache
    /\ environ \in MainEnvironments
    /\ yaml_file = None
    /\ config_data = <<>>
    /\ settings = module_settings(<<>>, environ)
    /\ config_value = None
    /\ used = <<>>
    /\ \E script \in Scripts, argv \in MainCommandLines,
          class \in ExceptionClasses, summary \in BOOLEAN :
          /\ script = "run_analysis.py" => ~argv.clear_cache /\ ~argv.quiet
          /\ proc = [pc |-> "main", script |-> script, argv |-> argv,
                     raises |-> [analysis |-> class, summary |-> summary],
                     exit |-> None]

MainFrame ==
    UNCHANGED <<scoring_inputs, last_call, result, report, momentum,
                peer_vars, thesis_vars, config, cache_vars, loader_vars>>

\* run_analysis.py: ticker = sys.argv[1].upper() or TICKER, then
\* run_analysis(ticker), which starts with (ticker or TICKER).upper()
MainPlain ==
    /\ proc.pc = "main"
    /\ proc.script = "run_analysis.py"
    /\ ticker' = IF proc.argv.ticker # None
                 THEN Str(upper(proc.argv.ticker.v))
                 ELSE Str(upper(settings.TICKER.v))
    /\ proc' = [proc EXCEPT !.pc = "run_analysis"]
    /\ run' = [run EXCEPT !.pc = "collect"]
    /\ UNCHANGED validation
    /\ MainFrame

\* run_analysis_enhanced.py: --clear-cache returns 0; without a ticker main
\* prints the help and returns 1; otherwise run_analysis is called, which
\* starts with sanitize_ticker(ticker)
MainEnhanced ==
    /\ proc.pc = "main"
    /\ proc.script = "run_analysis_enhanced.py"
    /\ ticker' = or(proc.argv.ticker, settings.TICKER)
    /\ IF proc.argv.clear_cache
       THEN /\ proc' = [proc EXCEPT !.pc = "cache cleared", !.exit = Exit(0)]
            /\ UNCHANGED <<run, validation>>
       ELSE IF ~bool(ticker')
       THEN /\ proc' = [proc EXCEPT !.pc = "no ticker", !.exit = Exit(1)]
            /\ UNCHANGED <<run, validation>>
       ELSE /\ validation' = sanitize_ticker(ticker')
            /\ proc' = [proc EXCEPT !.pc = "run_analysis"]
            /\ run' = IF validation'.raised THEN run
                      ELSE [run EXCEPT !.pc = "collect"]
    /\ MainFrame

\* run_analysis returned: print_summary unless quiet, return 0
MainReturn ==
    /\ proc.pc = "run_analysis"
    /\ run.pc = "done"
    /\ IF /\ proc.script = "run_analysis_enhanced.py"
          /\ ~proc.argv.quiet
          /\ proc.raises.summary
       THEN \E e \in except(proc.script, "TypeError") :
               proc' = [proc EXCEPT !.pc = "summary raised", !.exit = e]
       ELSE proc' = [proc EXCEPT !.pc = "returned", !.exit = Exit(0)]
    /\ UNCHANGED <<run, validator_vars>>
    /\ MainFrame

\* run_analysis raised: sanitize_ticker did, or a step of the pipeline
MainExcept ==
    /\ proc.pc = "run_analysis"
    /\ validation.raised \/ run.pc = "raised"
    /\ \E e \in except(proc.script,
                       IF validation.raised THEN "ValidationError"
                       ELSE raised_class) :
          proc' = [proc EXCEPT !.pc = "excepted", !.exit = e]
    /\ UNCHANGED <<run, validator_vars>>
    /\ MainFrame

MainNext ==
    \/ MainPlain
    \/ MainEnhanced
    \/ PipelineNext
    \/ MainReturn
    \/ MainExcept

MainSpec == MainInit /\ [][MainNext]_vars

(***************************************************************************)
(* Properties                                                              *)
(***************************************************************************)
ScorerNames == {"score_valuation", "score_growth", "score_profitability",
                "score_financial_health", "score_momentum_sentiment",
                "score_quality_moat"}

Returned == last_call \in ScorerNames /\ ~result.raised
Reported == last_call = "calculate_total_score" /\ ~report.raised

\* C1: whatever the inputs, a score returned by any of the six category
\* scorers (called alone or inside calculate_total_score) lies in [1, 10].
C1_ScoreInRange ==
    /\ Returned => (100 <= result.score /\ result.score <= 1000)
    /\ Reported => \A c \in CategoryNames :
                      /\ 100 <= report.categories[c].score
                      /\ report.categories[c].score <= 1000

\* a momentum score of 12 with a buy consensus is returned as 10
C1_Witness ==
    /\ last_call = "score_momentum_sentiment"
    /\ sentiment.momentum.momentum_score = Num(1200)
    /\ sentiment.analyst_recommendations.mean_rating = Num(20)
    /\ ~result.raised
    /\ result.score = 1000

\* the label the thresholds 8.0 / 6.5 / 5.0 / 3.5 give a total, highest first
ThresholdLabel(total) ==
    IF total >= 800 THEN "Strong Buy"
    ELSE IF total >= 650 THEN "Buy"
    ELSE IF total >= 500 THEN "Hold"
    ELSE IF total >= 350 THEN "Sell"
    ELSE "Strong Sell"

\* C2: the recommendation of a report is the label of the highest threshold
\* met by the total_score that the same report carries.
C2_RecommendationOfReportedTotal ==
    Reported => report.recommendation = ThresholdLabel(report.total_score)

ReportedSum ==
    report.categories["Valuation"].weighted
        + report.categories["Growth"].weighted
        + report.categories["Profitability"].weighted
        + report.categories["Financial Health"].weighted
        + report.categories["Momentum/Sentiment"].weighted
        + report.categories["Quality/Moat"].weighted

\* C3: total_score is the sum of the six categories' weighted values,
\* rounded to one decimal place.
C3_TotalIsRoundedSum ==
    Reported => report.total_score = Round1(ReportedSum)

\* a report whose sum of weighted values is not already a one-decimal number
C3_Witness ==
    /\ Reported
    /\ ReportedSum % 10 # 0
    /\ report.categories["Quality/Moat"].weighted > 0

\* C4 as stated: the end-to-end scenario scores Valuation >= 8,
\* Growth >= 8, Profitability >= 7.5, Financial Health >= 7 and is
\* recommended "Strong Buy".
InScenario ==
    /\ analysis = ScenarioInput.analysis
    /\ peer_summary = ScenarioInput.peer_summary
    /\ sentiment = ScenarioInput.sentiment

C4_ScenarioAsStated ==
    (InScenario /\ Reported) =>
        /\ report.categories["Valuation"].score >= 800
        /\ report.categories["Growth"].score >= 800
        /\ report.categories["Profitability"].score >= 750
        /\ report.categories["Financial Health"].score >= 700
        /\ report.recommendation = "Strong Buy"

\* C4 amended: the end-to-end scenario scores Valuation 7.5, Growth 7.0,
\* Profitability 6.5, Financial Health 6.0, Momentum/Sentiment 7.0 and
\* Quality/Moat 5.5; the total is 6.7 and the recommendation "Buy".
C4_ScenarioScores ==
    (InScenario /\ Reported) =>
        /\ report.categories["Valuation"].score = 750
        /\ report.categories["Growth"].score = 700
        /\ report.categories["Profitability"].score = 650
        /\ report.categories["Financial Health"].score = 600
        /\ report.categories["Momentum/Sentiment"].score = 700
        /\ report.categories["Quality/Moat"].score = 550
        /\ report.total_score = 670
        /\ report.recommendation = "Buy"

C4_Witness == InScenario /\ Reported /\ report.total_score > 0

LaddersOf(call) ==
    CASE call = "score_valuation" -> ValuationLadders
      [] call = "score_growth" -> GrowthLadders
      [] call = "score_profitability" -> ProfitabilityLadders
      [] call = "score_financial_health" -> HealthLadders
      [] call = "score_momentum_sentiment" -> SentimentLadders
      [] call = "score_quality_moat" -> QualityLadders

\* how many of the returned factor strings come from one ladder
FromLadder(factors, ladder) ==
    Cardinality({i \in DOMAIN factors : factors[i] \in ladder})

WithoutTrailingPE ==
    [analysis EXCEPT !.valuation.pe_trailing = Absent]

\* C5: in one scoring run every metric's ladder contributes at most one
\* factor string, and a trailing P/E above 50 (no forward P/E given) lowers
\* the valuation score by exactly 1.5 against the same input without it.
C5_FirstMatchWins ==
    /\ Returned =>
          \A l \in DOMAIN LaddersOf(last_call) :
              FromLadder(result.factors, LaddersOf(last_call)[l]) <= 1
    /\ (/\ last_call = "score_valuation"
        /\ ~result.raised
        /\ analysis.valuation.pe_trailing.k = "num"
        /\ analysis.valuation.pe_trailing.v > 50
        /\ ~Truthy(analysis.valuation.pe_forward))
          => result.score
                = score_valuation(WithoutTrailingPE, peer_summary).score - 150

\* a P/E of 60 was scored and produced the "High P/E" factor
C5_Witness ==
    /\ last_call = "score_valuation"
    /\ analysis.valuation.pe_trailing = Num(60)
    /\ ~result.raised
    /\ \E i \in DOMAIN result.factors :
          result.factors[i] = "High P/E ({pe:.1f}x) suggests premium valuation"

NoInputs ==
    /\ analysis = NoAnalysis
    /\ peer_summary = NoPeerSummary
    /\ sentiment = NoSentiment

WeightOf(call) ==
    CASE call = "score_valuation" -> 25
      [] call = "score_growth" -> 20
      [] call = "score_profitability" -> 20
      [] call = "score_financial_health" -> 15
      [] call = "score_momentum_sentiment" -> 10
      [] call = "score_quality_moat" -> 10

\* C6: on empty analysis, peer_summary and sentiment mappings each of the
\* six scorers returns score 5.0, no factors and weighted = 5.0 x weight.
C6_EmptyInputIsNeutral ==
    (NoInputs /\ last_call \in ScorerNames) =>
        /\ ~result.raised
        /\ result.score = 500
        /\ result.factors = <<>>
        /\ result.weight = WeightOf(last_call)
        /\ 100 * result.weighted = 500 * WeightOf(last_call)

C6_Witness ==
    /\ NoInputs
    /\ last_call = "score_quality_moat"
    /\ result.score = 500

\* None read as a missing key, in every dictionary the scorers read
Skip(x) == IF x.k = "none" THEN Absent ELSE x
SkipAll(d) == [key \in DOMAIN d |-> Skip(d[key])]

AnalysisNoneRemoved ==
    [valuation |-> SkipAll(analysis.valuation),
     growth |-> SkipAll(analysis.growth),
     profitability |-> SkipAll(analysis.profitability),
     financial_health |-> SkipAll(analysis.financial_health)]
PeerSummaryNoneRemoved ==
    [relative_valuation |-> SkipAll(peer_summary.relative_valuation)]
SentimentNoneRemoved ==
    [sentiment EXCEPT
        !.momentum.momentum_score = Skip(@),
        !.analyst_recommendations.mean_rating = Skip(@),
        !.analyst_recommendations.price_targets.upside_pct = Skip(@),
        !.earnings_history.beat_rate = Skip(@)]

WithNoneRemoved(call) ==
    CASE call = "score_valuation" ->
            score_valuation(AnalysisNoneRemoved, PeerSummaryNoneRemoved)
      [] call = "score_growth" -> score_growth(AnalysisNoneRemoved)
      [] call = "score_profitability" -> score_profitability(AnalysisNoneRemoved)
      [] call = "score_financial_health" ->
            score_financial_health(AnalysisNoneRemoved)
      [] call = "score_momentum_sentiment" ->
            score_momentum_sentiment(SentimentNoneRemoved)
      [] call = "score_quality_moat" -> score_quality_moat(AnalysisNoneRemoved)

Missing(x) == x.k # "num"

\* for each ladder of LaddersOf(call): is a metric it reads absent or None
LadderInputMissing(call) ==
    LET v == analysis.valuation
        g == analysis.growth
        pr == analysis.profitability
        h == analysis.financial_health
        an == sentiment.analyst_recommendations
    IN  CASE call = "score_valuation" ->
                << Missing(v.pe_trailing),
                   Missing(v.pe_trailing) \/ Missing(v.pe_forward),
                   Missing(v.peg_ratio),
                   Missing(peer_summary.relative_valuation.avg_premium_discount),
                   Missing(v.fcf_yield) >>
          [] call = "score_growth" ->
                << Missing(g.revenue_growth_1y) /\ Missing(g.revenue_growth_yoy),
                   Missing(g.revenue_cagr_3y), Missing(g.eps_growth_1y),
                   Missing(g.fcf_growth_1y) >>
          [] call = "score_profitability" ->
                << Missing(pr.gross_margin), Missing(pr.operating_margin),
                   Missing(pr.roe), Missing(pr.roic) >>
          [] call = "score_financial_health" ->
                << Missing(h.current_ratio), Missing(h.debt_to_equity),
                   Missing(h.interest_coverage), Missing(h.altman_z_score) >>
          [] call = "score_momentum_sentiment" ->
                << Missing(an.mean_rating), Missing(an.price_targets.upside_pct),
                   Missing(sentiment.earnings_history.beat_rate) >>
          [] call = "score_quality_moat" ->
                << Missing(pr.gross_margin) \/ Missing(pr.operating_margin),
                   Missing(pr.roe) \/ Missing(pr.roic),
                   Missing(g.revenue_cagr_3y), Missing(h.debt_to_equity),
                   Missing(v.fcf_yield) >>

\* C7: whichever metrics are absent or None, a scorer returns a
\* CategoryScore without raising, a ladder whose metric is absent or None
\* adds no factor, and a None metric scores exactly like an absent one.
C7_MissingMetricsNeverRaise ==
    last_call \in ScorerNames =>
        /\ ~result.raised
        /\ \A l \in DOMAIN LaddersOf(last_call) :
              LadderInputMissing(last_call)[l] =>
                  FromLadder(result.factors, LaddersOf(last_call)[l]) = 0
        /\ result = WithNoneRemoved(last_call)

\* The deltas of the valuation rules as the rule table states them;
\* skipped says when a metric counts as not given.
DeltaPE(skipped, pe) ==
    IF skipped THEN 0
    ELSE IF pe.v < 15 THEN 150
    ELSE IF pe.v < 25 THEN 50
    ELSE IF pe.v > 50 THEN -150
    ELSE IF pe.v > 35 THEN -50
    ELSE 0

DeltaForward(skipped, pe, pe_forward) ==
    IF skipped THEN 0
    ELSE IF 10 * pe_forward.v < 8 * pe.v THEN 50
    ELSE IF 10 * pe_forward.v > 12 * pe.v THEN -50
    ELSE 0

DeltaPEG(skipped, peg) ==
    IF skipped THEN 0
    ELSE IF peg.v < 10 THEN 100
    ELSE IF peg.v > 20 THEN -50
    ELSE 0

DeltaPeer(skipped, avg_premium) ==
    IF skipped THEN 0
    ELSE IF avg_premium.v < -20 THEN 100
    ELSE IF avg_premium.v < -10 THEN 50
    ELSE IF avg_premium.v > 30 THEN -100
    ELSE IF avg_premium.v > 15 THEN -50
    ELSE 0

DeltaFCF(skipped, fcf_yield) ==
    IF skipped THEN 0
    ELSE IF fcf_yield.v > 6 THEN 50
    ELSE IF fcf_yield.v < 2 THEN -50
    ELSE 0

\* not given: absent, None, and with zeroSkipped also the number 0
NotGiven(zeroSkipped, x) == Missing(x) \/ (zeroSkipped /\ x.v = 0)

ValuationDeltas(zeroSkipped) ==
    LET pe == analysis.valuation.pe_trailing
        fwd == analysis.valuation.pe_forward
        peg == analysis.valuation.peg_ratio
        prem == peer_summary.relative_valuation.avg_premium_discount
        fcf == analysis.valuation.fcf_yield
    IN  << DeltaPE(NotGiven(zeroSkipped, pe), pe),
           DeltaForward(NotGiven(zeroSkipped, pe) \/ NotGiven(zeroSkipped, fwd),
                        pe, fwd),
           DeltaPEG(NotGiven(zeroSkipped, peg), peg),
           DeltaPeer(Missing(prem), prem),
           DeltaFCF(NotGiven(zeroSkipped, fcf), fcf) >>

\* the valuation score and factor list that a sequence of five deltas gives:
\* clamp of 5.0 + the deltas, one factor per non-zero delta, in rule order
ValuationMatches(deltas) ==
    /\ result.score = Max2(100, Min2(1000, 500 + SumSeq(deltas)))
    /\ Len(result.factors) = Cardinality({l \in 1..5 : deltas[l] # 0})
    /\ \A l \in 1..5 :
          FromLadder(result.factors, ValuationLadders[l])
              = IF deltas[l] # 0 THEN 1 ELSE 0
    /\ \A i, j \in DOMAIN result.factors :
          i < j => \E l, m \in 1..5 :
                      /\ l < m
                      /\ result.factors[i] \in ValuationLadders[l]
                      /\ result.factors[j] \in ValuationLadders[m]

ValuationReturned == last_call = "score_valuation" /\ ~result.raised

\* C8 as stated: a returned valuation score is clamp[1,10] of 5.0 + dPE +
\* dFwd + dPEG + dPeer + dFCF, every metric that is present (0 included)
\* running through its ladder, with one factor per non-zero delta.
C8_ValuationAsStated ==
    ValuationReturned => ValuationMatches(ValuationDeltas(FALSE))

\* C8 amended: as stated, except that a trailing P/E, forward P/E, PEG or
\* FCF yield equal to 0 is skipped like an absent one (delta 0, no factor).
C8_ValuationFormula ==
    ValuationReturned => ValuationMatches(ValuationDeltas(TRUE))

\* a deep peer discount, a low P/E and a weak FCF yield scored together
C8_Witness ==
    /\ ValuationReturned
    /\ peer_summary.relative_valuation.avg_premium_discount = Num(-25)
    /\ analysis.valuation.pe_trailing = Num(12)
    /\ analysis.valuation.fcf_yield = Num(1)
    /\ analysis.valuation.peg_ratio = Num(0)
    /\ result.score = 700

DeltaAnalyst(skipped, mean_rating) ==
    IF skipped THEN 0
    ELSE IF mean_rating.v <= 20 THEN 100
    ELSE IF mean_rating.v <= 25 THEN 50
    ELSE IF mean_rating.v >= 40 THEN -100
    ELSE 0

DeltaUpside(skipped, upside) ==
    IF skipped THEN 0
    ELSE IF upside.v > 20 THEN 50
    ELSE IF upside.v < -10 THEN -50
    ELSE 0

DeltaBeat(skipped, beat_rate) ==
    IF skipped THEN 0
    ELSE IF beat_rate.v >= 75 THEN 50
    ELSE IF beat_rate.v < 50 THEN -50
    ELSE 0

MomentumStart ==
    IF sentiment.momentum.momentum_score.k = "absent" THEN 500
    ELSE sentiment.momentum.momentum_score.v

MomentumMatches(zeroSkipped) ==
    LET mean == sentiment.analyst_recommendations.mean_rating
        upside == sentiment.analyst_recommendations.price_targets.upside_pct
        beat == sentiment.earnings_history.beat_rate
    IN  result.score
            = Max2(100, Min2(1000,
                  MomentumStart
                      + DeltaAnalyst(NotGiven(zeroSkipped, mean), mean)
                      + DeltaUpside(Missing(upside), upside)
                      + DeltaBeat(Missing(beat), beat)))

MomentumReturned == last_call = "score_momentum_sentiment" /\ ~result.raised

C10_MomentumScoreAsStated ==
    LET r1m == data.return_metrics.return_1m
        price == data.overview.current_price
        ma50 == data.overview.fifty_day_avg
        ma200 == data.overview.two_hundred_day_avg
        high == data.overview.pct_from_52w_high
        d1m == IF Missing(r1m) THEN 0
               ELSE IF r1m.v > 10 THEN 100
               ELSE IF r1m.v > 5 THEN 50
               ELSE IF r1m.v < -10 THEN -100
               ELSE IF r1m.v < -5 THEN -50
               ELSE 0
        d50 == IF ~(Truthy(price) /\ Truthy(ma50)) THEN 0
               ELSE IF price.v > ma50.v THEN 50 ELSE -50
        d200 == IF ~(Truthy(price) /\ Truthy(ma200)) THEN 0
                ELSE IF price.v > ma200.v THEN 50 ELSE -50
        dcross == IF ~(Truthy(ma50) /\ Truthy(ma200)) THEN 0
                  ELSE IF ma50.v > ma200.v THEN 50 ELSE -50
        dhigh == IF Missing(high) THEN 0
                 ELSE IF high.v > -5 THEN 50
                 ELSE IF high.v < -30 THEN -50
                 ELSE 0
    IN  last_call = "calculate_momentum_score" =>
            /\ momentum.momentum_score
                  = Max2(100, Min2(1000, 500 + d1m + d50 + d200 + dcross + dhigh))
            /\ data = NoData =>
                  /\ momentum.momentum_score = 500
                  /\ momentum.technical_signals = <<>>

(***************************************************************************)
(* Properties of the peer comparison.                                      *)
(***************************************************************************)
Valued == last_call = "calculate_relative_valuation"

\* the value of the target and the values of the peers behind an entry
TargetValue(metric) == MetricValue(stats, metric).v
ValidPeerValues(metric) == peer_values(metric, peers, peer_data)

\* entry = (target / peer_avg - 1) * 100 with peer_avg = sum / count,
\* cleared of its denominators
IsPremiumOver(entry, target_value, values) ==
    entry.n * SumSeq(values)
        = entry.d * 100 * (target_value * Len(values) - SumSeq(values))

\* C11: every entry of premium_discount equals (target / peer_avg - 1) x 100,
\* peer_avg being the mean of the metric over the peers that have a valid
\* value for it (a peer average of exactly 0 leaves the quotient undefined
\* and is not held against the entry).
C11_PremiumIsTargetOverPeerAverage ==
    Valued =>
        \A m \in DOMAIN relative_valuation.premium_discount :
            SumSeq(ValidPeerValues(m)) # 0 =>
                IsPremiumOver(relative_valuation.premium_discount[m],
                              TargetValue(m), ValidPeerValues(m))

\* the entries of premium_discount in the order the metrics are visited
EntriesInOrder ==
    LET kept == SelectSeq(valuation_metrics,
                          LAMBDA m : m \in DOMAIN relative_valuation.premium_discount)
    IN  [i \in DOMAIN kept |-> relative_valuation.premium_discount[kept[i]]]

\* a metric the claim lets into premium_discount
HasTargetAndPeer(m) ==
    /\ ~IsNone(MetricValue(stats, m))
    /\ ValidPeerValues(m) # <<>>

OnlyEvaluatedMetricsEntered ==
    DOMAIN relative_valuation.premium_discount
        = {m \in PeerRange(valuation_metrics) : HasTargetAndPeer(m)}

AverageIsPlainMean ==
    LET avg == relative_valuation.avg_premium_discount
        total == FracSum(EntriesInOrder)
    IN  IF EntriesInOrder = <<>> THEN avg.n = 0
        ELSE avg.n * total.d * Len(EntriesInOrder) = total.n * avg.d

\* a 0% entry that no quotient target / peer_avg produced
PhantomZero(m) ==
    /\ relative_valuation.premium_discount[m].n = 0
    /\ TargetValue(m) * Len(ValidPeerValues(m)) # SumSeq(ValidPeerValues(m))

\* C12: a valuation metric without a valid peer value or without a target
\* value adds no entry to premium_discount; avg_premium_discount is the
\* plain mean of the entries (0 when there is none); no entry that enters
\* the average is a 0% that was not computed from target and peer average.
C12_OnlyEvaluatedMetricsAveraged ==
    Valued =>
        /\ OnlyEvaluatedMetricsEntered
        /\ AverageIsPlainMean
        /\ \A m \in DOMAIN relative_valuation.premium_discount : ~PhantomZero(m)

\* the band of an average premium p = n/d as the claim lists the bands
BandOf(p) ==
    CASE p.n > 30 * p.d -> "Significant Premium"
      [] p.n > 10 * p.d /\ p.n <= 30 * p.d -> "Moderate Premium"
      [] p.n > -10 * p.d /\ p.n <= 10 * p.d -> "In-Line"
      [] p.n > -30 * p.d /\ p.n <= -10 * p.d -> "Moderate Discount"
      [] p.n <= -30 * p.d -> "Significant Discount"

\* C13: the assessment is the band of avg_premium_discount p: p > 30
\* Significant Premium, 10 < p <= 30 Moderate Premium, -10 < p <= 10 In-Line,
\* -30 < p <= -10 Moderate Discount, p <= -30 Significant Discount.
C13_AssessmentBands ==
    Valued =>
        relative_valuation.assessment = BandOf(relative_valuation.avg_premium_discount)

\* an average premium of exactly 30 percent was assessed
C13_Witness ==
    /\ Valued
    /\ relative_valuation.avg_premium_discount = Frac(30, 1)
    /\ relative_valuation.assessment = "Moderate Premium"

Collected == last_call = "collect_peer_data"

\* the peers whose three fetches all return
FetchedPeers == {p \in PeerRange(peers) : fetch_succeeds(provider[p])}

\* C20: after collect_peer_data on a fresh PeerComparison, peer_data holds
\* exactly the peers whose three fetches all succeeded, each with a complete
\* entry: a failing peer leaves no entry, stops no later peer and removes no
\* earlier one, and the call returns.
C20_PeerFailuresIsolated ==
    Collected =>
        /\ DOMAIN peer_data = FetchedPeers
        /\ \A p \in FetchedPeers : peer_data[p] = peer_entry(provider[p])

\* the first peer failed and the second one was collected
C20_Witness ==
    /\ Collected
    /\ Len(peers) >= 2
    /\ ~fetch_succeeds(provider[peers[1]])
    /\ peers[2] \in DOMAIN peer_data
    /\ peers[1] \notin DOMAIN peer_data

(***************************************************************************)
(* Properties of the bull and the bear case.                               *)
(***************************************************************************)
ThesisGenerated == last_call = "generate_investment_thesis"

SeqRange(s) == {s[i] : i \in DOMAIN s}

\* the factor strings the scorers put into the report
ScorerFactors == SeqRange(factors_in_order(report))

\* C14: a scorer factor string is on at most one side of the thesis: a
\* factor with a bull keyword is never in the bear case, and no factor
\* string is both in the list of generate_bull_case and in the list of
\* generate_bear_case.
C14_FactorOnOneSide ==
    ThesisGenerated =>
        \A f \in ScorerFactors :
            /\ ~(f \in SeqRange(bull_case) /\ f \in SeqRange(bear_case))
            /\ f \in SeqRange(bear_case) => ~is_bull(f)

NoDuplicates(s) == \A i, j \in DOMAIN s : i # j => s[i] # s[j]

\* where a string is first seen in a list
FirstSeen(s, x) == CHOOSE i \in DOMAIN s : s[i] = x /\ \A j \in 1..(i - 1) : s[j] # x

\* the scorer factors of a case stand in the order all_factors first shows
\* them
InFirstSeenOrder(case) ==
    \A i, j \in DOMAIN case :
        (i < j /\ case[i] \in ScorerFactors /\ case[j] \in ScorerFactors) =>
            FirstSeen(factors_in_order(report), case[i])
                < FirstSeen(factors_in_order(report), case[j])

ScorerFactorsIn(case) == SelectSeq(case, LAMBDA x : x \in ScorerFactors)

WellFormedCase(case) ==
    /\ NoDuplicates(case)
    /\ InFirstSeenOrder(case)
    /\ Len(ScorerFactorsIn(case)) <= 5

\* C15: the bull case and the bear case hold no string twice, keep the
\* order in which all_factors first shows their factors, and hold at most
\* 5 scorer factors each; a factor that several categories produce appears
\* once.
C15_UniqueOrderedAtMostFive ==
    ThesisGenerated => WellFormedCase(bull_case) /\ WellFormedCase(bear_case)

\* the strings that all_factors holds more than once
RepeatedFactors ==
    {x \in ScorerFactors :
        \E i, j \in DOMAIN factors_in_order(report) :
            i # j /\ factors_in_order(report)[i] = x
                  /\ factors_in_order(report)[j] = x}

\* a factor of two categories is in the bull case, and more than five
\* factors were classified bullish
C15_Witness ==
    /\ ThesisGenerated
    /\ \E x \in RepeatedFactors : x \in SeqRange(bull_case)
    /\ Cardinality({x \in ScorerFactors : is_bull(x)}) > 5
    /\ Len(bull_case) = 5

\* the one-off observations whose condition holds on the inputs
BullObservationsDue ==
    LET premium == GetDefault(peer_summary.relative_valuation.avg_premium_discount, 0)
        upside == GetOr(sentiment.analyst_recommendations.price_targets.upside_pct, 0)
    IN  SeqRange(
            AppendIf(margins_expanding(margin_trends),
                     "Operating margins expanding year-over-year")
            \o AppendIf(premium.v < -15,
                     "Trading at discount to peers despite comparable fundamentals")
            \o AppendIf(upside > 15,
                     "Analyst consensus implies {upside:.0f}% upside potential"))

BearObservationsDue ==
    LET premium == GetDefault(peer_summary.relative_valuation.avg_premium_discount, 0)
        de == Get(analysis.financial_health.debt_to_equity)
        rev_1y == GetOr(analysis.growth.revenue_growth_1y, 0)
        rev_3y_cagr == GetOr(analysis.growth.revenue_cagr_3y, 0)
        upside == GetOr(sentiment.analyst_recommendations.price_targets.upside_pct, 0)
    IN  SeqRange(
            AppendIf(premium.v > 20,
                     "Premium valuation relative to peers may not be sustainable")
            \o AppendIf(Truthy(de) /\ de.v > 100,
                     "Elevated debt levels (D/E: {de:.0f}%) increase risk")
            \o AppendIf(rev_3y_cagr > 0 /\ 10 * rev_1y < 7 * rev_3y_cagr,
                     "Revenue growth decelerating vs historical trend")
            \o AppendIf(upside < -10,
                     "Trading above analyst price target ({upside:.0f}%)"))

\* C16: the classified factors are cut to 5 before the derived observations
\* are appended, so every observation whose condition holds (margin trend,
\* peer discount or premium, analyst upside or downside, leverage, growth
\* deceleration) is in the returned list, however many factors were
\* classified.
C16_ObservationsAlwaysPresent ==
    ThesisGenerated =>
        /\ BullObservationsDue \subseteq SeqRange(bull_case)
        /\ BearObservationsDue \subseteq SeqRange(bear_case)

(***************************************************************************)
(* Properties of the pipeline run.                                         *)
(***************************************************************************)
\* the steps that render output: charts and report
RenderStages == {"charts", "report", "score chart", "save report"}

\* where a step stands in collect -> analyze -> compare peers -> sentiment
\* -> score -> render
StageRank(stage) ==
    CASE stage = "collect" -> 1
      [] stage = "analyze" -> 2
      [] stage = "compare peers" -> 3
      [] stage = "sentiment" -> 4
      [] stage = "score" -> 5
      [] stage \in RenderStages -> 6

\* C17: the stages of a run complete in the order collect, analyze, compare
\* peers, sentiment, score, render; no stage runs twice; no chart or report
\* step runs before scoring has completed.
C17_StrictlyLinearRun ==
    /\ \A i, j \in DOMAIN run.log :
          i < j => /\ run.log[i] # run.log[j]
                   /\ StageRank(run.log[i]) <= StageRank(run.log[j])
    /\ \A i \in DOMAIN run.log :
          run.log[i] \in RenderStages =>
              \E j \in 1..(i - 1) : run.log[j] = "score"

(***************************************************************************)
(* Properties of the configuration.                                        *)
(***************************************************************************)
WeightKeys == {"valuation", "growth", "profitability", "financial_health",
               "momentum_sentiment", "quality_moat"}

WeightSum(weights) ==
    weights.valuation + weights.growth + weights.profitability
        + weights.financial_health + weights.momentum_sentiment
        + weights.quality_moat

\* a table with the six weights, each in [0, 1], summing to 1 (hundredths)
ValidWeights(weights) ==
    /\ DOMAIN weights = WeightKeys
    /\ \A k \in WeightKeys : weights[k] >= 0 /\ weights[k] <= 100
    /\ WeightSum(weights) = 100

\* the weight a report applied to each category
AppliedWeights ==
    [valuation |-> report.categories["Valuation"].weight,
     growth |-> report.categories["Growth"].weight,
     profitability |-> report.categories["Profitability"].weight,
     financial_health |-> report.categories["Financial Health"].weight,
     momentum_sentiment |-> report.categories["Momentum/Sentiment"].weight,
     quality_moat |-> report.categories["Quality/Moat"].weight]

\* C18: the six configured category weights each lie in [0, 1] and sum to
\* exactly 1.0, in config.py and in config_loader.py alike (the same
\* table), and they are the weights a report applies.
C18_WeightsSumToOne ==
    /\ ValidWeights(SCORE_WEIGHTS)
    /\ ValidWeights(LOADER_SCORE_WEIGHTS)
    /\ LOADER_SCORE_WEIGHTS = SCORE_WEIGHTS
    /\ Reported => AppliedWeights = SCORE_WEIGHTS

\* a report that applied six weights summing to 1
C18_Witness ==
    /\ Reported
    /\ WeightSum(AppliedWeights) = 100
    /\ report.categories["Valuation"].weighted
            = Round2(report.categories["Valuation"].score * 25)

\* strong_buy > buy > hold > sell
StrictlyDescending(thresholds) ==
    /\ thresholds.strong_buy > thresholds.buy
    /\ thresholds.buy > thresholds.hold
    /\ thresholds.hold > thresholds.sell

\* a configuration the claim wants rejected
InvalidConfig(cfg) ==
    \/ WeightSum(cfg.weights) # 100
    \/ ~StrictlyDescending(cfg.thresholds)

\* C19: a configuration whose weights do not sum to 1 or whose thresholds
\* are not strictly descending is rejected at startup: the import does not
\* complete with it and calculate_total_score never produces a report
\* from it.
C19_InvalidConfigRejected ==
    InvalidConfig(config) =>
        /\ last_call # "import"
        /\ last_call # "calculate_total_score"

(***************************************************************************)
(* Properties of the scorers on a metric that is present and equal to 0.   *)
(***************************************************************************)
\* the factor each ladder gives for the value 0, next to the metric it reads
HealthZeroFactors ==
    { << analysis.financial_health.current_ratio,
         "Low current ratio ({current_ratio:.2f}) - liquidity risk" >>,
      << analysis.financial_health.debt_to_equity,
         "Low leverage (D/E: {de_ratio:.0f}%)" >>,
      << analysis.financial_health.interest_coverage,
         "Low interest coverage ({int_coverage:.1f}x) - debt risk" >>,
      << analysis.financial_health.altman_z_score,
         "Low Altman Z-Score ({z_score:.2f}) - elevated risk" >> }

ProfitabilityZeroFactors ==
    { << analysis.profitability.gross_margin,
         "Low gross margin ({gross_margin:.1%})" >>,
      << analysis.profitability.operating_margin,
         "Thin operating margin ({op_margin:.1%})" >>,
      << analysis.profitability.roe, "Low ROE ({roe:.1%})" >>,
      << analysis.profitability.roic, "Low ROIC ({roic:.1%})" >> }

ZeroFactorsOf(call) ==
    CASE call = "score_financial_health" -> HealthZeroFactors
      [] call = "score_profitability" -> ProfitabilityZeroFactors
      [] OTHER -> {}

\* C26: only absent or None metrics are skipped: a metric that is present
\* with the value 0 runs through its ladder, so score_financial_health and
\* score_profitability return the factor (and delta) the ladder gives for 0:
\* current_ratio = 0 is below 1.0, altman_z_score = 0 below 1.8, roe = 0
\* below 8%.
C26_ZeroRunsThroughLadder ==
    Returned =>
        \A zf \in ZeroFactorsOf(last_call) :
            zf[1] = Num(0) => zf[2] \in SeqRange(result.factors)

(***************************************************************************)
(* Properties that tie the thesis to the rules behind its factors.         *)
(***************************************************************************)
\* every rule the six scorers applied to the inputs, with delta and factors
AppliedRules ==
    valuation_rules(analysis, peer_summary) \o growth_rules(analysis)
        \o profitability_rules(analysis) \o financial_health_rules(analysis)
        \o momentum_sentiment_rules(sentiment) \o quality_moat_rules(analysis)

\* the factors appended together with a negative, with a positive delta
LoweringFactors ==
    UNION {SeqRange(AppliedRules[i].f) :
              i \in {j \in DOMAIN AppliedRules : AppliedRules[j].d < 0}}

RaisingFactors ==
    UNION {SeqRange(AppliedRules[i].f) :
              i \in {j \in DOMAIN AppliedRules : AppliedRules[j].d > 0}}

\* C27: a scorer factor in the bull case comes from a score-raising rule and
\* one in the bear case from a score-lowering rule: no factor appended with
\* a negative delta is returned by generate_bull_case, none appended with a
\* positive delta by generate_bear_case.
C27_SidesFollowDeltas ==
    ThesisGenerated =>
        /\ SeqRange(bull_case) \cap LoweringFactors = {}
        /\ SeqRange(bear_case) \cap RaisingFactors = {}

(***************************************************************************)
(* Properties of the raw sums the scorers clamp.                           *)
(***************************************************************************)
StartsAtFive == {"score_valuation", "score_growth", "score_profitability",
                 "score_financial_health", "score_quality_moat"}

RulesOf(call) ==
    CASE call = "score_valuation" -> valuation_rules(analysis, peer_summary)
      [] call = "score_growth" -> growth_rules(analysis)
      [] call = "score_profitability" -> profitability_rules(analysis)
      [] call = "score_financial_health" -> financial_health_rules(analysis)
      [] call = "score_quality_moat" -> quality_moat_rules(analysis)

\* 5.0 plus the deltas of the rules, before max(1, min(10, score))
RawScore(call) == 500 + SumDeltas(RulesOf(call))

\* C28: for the five scorers that start at 5.0 the sum before clamping lies
\* in [1, 10] on every input, so the returned score is that sum unchanged
\* by the clamp; the Quality/Moat score is never below 5.0.
C28_ClampIdleOutsideMomentum ==
    /\ (Returned /\ last_call \in StartsAtFive) =>
          /\ RawScore(last_call) >= 100
          /\ RawScore(last_call) <= 1000
          /\ result.score = Round1(RawScore(last_call))
          /\ last_call = "score_quality_moat" => result.score >= 500
    /\ Reported => report.categories["Quality/Moat"].score >= 500

\* the valuation rules all lowered the score: the sum is exactly 1.0
C28_Witness ==
    /\ Returned
    /\ last_call = "score_valuation"
    /\ RawScore(last_call) = 100
    /\ result.score = 100


(***************************************************************************)
(* Properties of the ticker validators.                                    *)
(***************************************************************************)
\* 1-5 letters, optionally followed by "." and 1-3 letters
WellFormedTicker(s) ==
    \E n \in 1..5, m \in 0..3 :
        /\ Len(s) = n + (IF m = 0 THEN 0 ELSE m + 1)
        /\ \A i \in 1..n : SubSeq(s, i, i) \in A_Z
        /\ m > 0 =>
              /\ SubSeq(s, n + 1, n + 1) = "."
              /\ \A i \in (n + 2)..(n + 1 + m) : SubSeq(s, i, i) \in A_Z

\* the ticker stripped of surrounding whitespace and upper-cased is well formed
Acceptable(t) == t.k = "str" /\ WellFormedTicker(upper(strip(t.v)))

C22_GetReturnsLastSet ==
    /\ (cache_result # None /\ cache_result.op = "get") =>
          cache_result.ret =
              IF /\ cache_manager.enabled
                 /\ cache_result.key \in DOMAIN expected
                 /\ Live(expected[cache_result.key], cache_result.at)
              THEN expected[cache_result.key].value
              ELSE cache_result.default
    /\ (cache_result # None /\ cache_result.op = "set"
            /\ ~cache_manager.enabled) => cache_result.ret = Bool(FALSE)

\* the argument list was executed before and its entry has not expired
EntryLive(a) ==
    /\ live_until[a].executed
    /\ \/ live_until[a].expire_time = None
       \/ live_until[a].expire_time.v > now

\* C23: on an enabled cache a call of the wrapped function with an argument
\* list whose earlier result is still live does not execute the function
\* again and returns that result.
C23_BodyRunsOnce ==
    [][\A a \in ArgLists :
          (/\ cache_manager.enabled
           /\ wrapped'.calls = wrapped.calls + 1
           /\ wrapped'.args = a
           /\ EntryLive(a)) =>
              /\ call_count'[a] = call_count[a]
              /\ cache_result'.ret = live_until[a].result]_vars

\* C29: on an enabled cache every call of the wrapped function returns what
\* the function itself returns for the arguments of that call.
C29_CachedIsTransparent ==
    (cache_manager.enabled /\ wrapped.func # "none" /\ wrapped.calls > 0) =>
        cache_result.ret = func(wrapped.func, wrapped.args)

(***************************************************************************)
(* Properties of the configuration loader.                                 *)
(***************************************************************************)
\* the numbers the texts of the environment denote: as an int, as a float in
\* hundredths; a text without entry is no numeral of that type
IntOf == [t \in {"42", "0", " 7 ", "-3"} |->
            CASE t = "42" -> 42 [] t = "0" -> 0 [] t = " 7 " -> 7 [] OTHER -> -3]

FloatOf == [t \in {"42", "3.14", "0", " 7 ", "-3"} |->
              CASE t = "42" -> 4200 [] t = "3.14" -> 314 [] t = "0" -> 0
                [] t = " 7 " -> 700 [] OTHER -> -300]

TrueTexts == {"true", "Yes"}

\* the variable Config.get looks up: env_var, or the key in upper case
EnvKeyOf(c) ==
    IF c.env_var # None THEN c.env_var.v
    ELSE CASE c.key = "max_workers" -> "MAX_WORKERS" [] OTHER -> "NONEXISTENT"

\* C24: Config.get returns the value of the environment variable, converted
\* to bool, int or float according to the type of default, whenever the
\* variable is set (a text that is no numeral of that type makes the
\* conversion raise ValueError); otherwise the YAML value when the key is in
\* the loaded file; otherwise default.
C24_FallbackChain ==
    config_value # None =>
        LET c == config_value.call
            got == config_value.got
            name == EnvKeyOf(c)
        IN  IF name \in DOMAIN environ
            THEN CASE c.default.k = "bool" ->
                        got = Value(Bool(environ[name] \in TrueTexts))
                   [] c.default.k = "num" ->
                        IF environ[name] \in DOMAIN IntOf
                        THEN got = Value(Num(IntOf[environ[name]]))
                        ELSE got.raised
                   [] c.default.k = "float" ->
                        IF environ[name] \in DOMAIN FloatOf
                        THEN got = Value(Float(FloatOf[environ[name]]))
                        ELSE got.raised
                   [] OTHER -> got = Value(Str(environ[name]))
            ELSE IF c.key \in DOMAIN config_value.self
                 THEN got = Value(config_value.self[c.key])
                 ELSE got = Value(c.default)

\* the environment variable and the YAML file both hold the setting, and the
\* environment wins
C24_Witness ==
    /\ config_value # None
    /\ config_value.call.key = "int_value"
    /\ "INT_VALUE" \in DOMAIN environ
    /\ "int_value" \in DOMAIN config_value.self
    /\ config_value.got = Value(Num(42))

\* C30: once main has called load_config on a YAML file, the ticker and the
\* directories the run works with are those of the file, unless the
\* environment (or the command line) sets them.
C30_RunUsesLoadedConfig ==
    (proc.pc = "running" /\ yaml_file.given /\ yaml_file.exists) =>
        /\ ("default_ticker" \in DOMAIN yaml_file.data
                /\ "DEFAULT_TICKER" \notin DOMAIN environ
                /\ proc.argv.ticker = None) =>
              used.ticker = yaml_file.data["default_ticker"]
        /\ ("output_dir" \in DOMAIN yaml_file.data
                /\ "OUTPUT_DIR" \notin DOMAIN environ
                /\ proc.argv.output_dir = None) =>
              used.output_dir = yaml_file.data["output_dir"]
        /\ ("charts_dir" \in DOMAIN yaml_file.data
                /\ "CHARTS_DIR" \notin DOMAIN environ
                /\ proc.argv.output_dir = None) =>
              used.charts_dir = yaml_file.data["charts_dir"]

(***************************************************************************)
(* Properties of the entry points.                                         *)
(***************************************************************************)
\* run_analysis was called and raised
AnalysisRaised ==
    /\ proc.pc \in {"run_analysis", "excepted"}
    /\ validation.raised \/ run.pc = "raised"

\* C21: when run_analysis raises (invalid ticker, a failing step, any other
\* exception) the process ends with a non-zero exit status, which main
\* returns for every exception of class Exception; status 0 after an
\* analysis was started means run_analysis completed and the report was
\* written.
C21_ExitCodes ==
    proc.exit # None =>
        /\ AnalysisRaised =>
              /\ proc.exit.code # 0
              /\ (validation.raised \/ raised_class # "KeyboardInterrupt") =>
                    proc.exit.returned
        /\ (proc.exit.code = 0 /\ proc.pc # "cache cleared") =>
              /\ run.pc = "done"
              /\ \E i \in DOMAIN run.log : run.log[i] = "save report"

\* data collection failed and main returned 1
C21_Witness ==
    /\ proc.pc = "excepted"
    /\ run.pc = "raised"
    /\ run.fails = "collect"
    /\ proc.raises.analysis = "DataCollectionError"
    /\ proc.exit = Exit(1)

=============================================================================
